---- MODULE Spec2Model ----
(***************************************************************************)
(* pyvinga: the check program (pyvinga.py) and the setup program           *)
(* (icinga1-setup/vi_setup.py), modelled as one invocation of either       *)
(* program against a provider whose answers are chosen nondeterministically.*)
(*                                                                         *)
(* Numbers that the programs hold as floats are modelled as exact          *)
(* rationals <<numerator, denominator>> with a positive denominator; the   *)
(* programs use true division (from __future__ import division).           *)
(***************************************************************************)
EXTENDS Integers, Sequences, FiniteSets, TLC

(* ---------------------------------------------------------------------- *)
(* Bounds of the model                                                     *)
(* ---------------------------------------------------------------------- *)
\* longest object list a property fetch returns
MaxObjs == 2
\* most samples in one returned metric series
MaxSamples == 2

(* ---------------------------------------------------------------------- *)
(* Program constants (pyvinga.py 21-26)                                    *)
(* ---------------------------------------------------------------------- *)
STATE_OK == 0
STATE_WARNING == 1
STATE_CRITICAL == 2
STATE_UNKNOWN == 3
\* state_tuple[STATE_X] of the source is state_tuple[STATE_X + 1] here
state_tuple == <<"OK", "WARNING", "CRITICAL", "UNKNOWN">>

\* an omitted option, an unset variable: None is <<>>, a value x is <<x>>
None == <<>>
Some(x) == <<x>>

(* ---------------------------------------------------------------------- *)
(* Rationals                                                               *)
(* ---------------------------------------------------------------------- *)
Rat(n, d) == <<n, d>>
RGe(a, b) == a[1] * b[2] >= b[1] * a[2]
REq(a, b) == a[1] * b[2] = b[1] * a[2]
RLt(a, b) == a[1] * b[2] < b[1] * a[2]

RECURSIVE SumSeq(_)
\* sum(perfResults[0].value[0].value)
SumSeq(s) == IF s = <<>> THEN 0 ELSE Head(s) + SumSeq(Tail(s))

(* ---------------------------------------------------------------------- *)
(* Input domains                                                           *)
(* ---------------------------------------------------------------------- *)
Progs == {"check", "setup"}
EntityTypes == {"vm", "host", "datastore", "cluster", "other"}
Names == {"web01", "db01"}
CounterArgs == {"core", "status", "cpu.ready", "cpu.usage", "mem.active", "mem.shared",
                "mem.balloon", "datastore.io", "datastore.latency", "network.usage",
                "mem.usage", "space", "bogus"}
\* -w / -c as given on the command line; None when the flag is omitted
ThresholdArgs == {None, Some(50), Some(80), Some(90)}
PowerStates == {"poweredOn", "poweredOff", "suspended"}
StatusValues == {"green", "yellow", "red", "gray"}
MemorySizes == {2048, 4096}
\* raw samples a metric series may carry
RawValues == {1024, 4000, 7500, 3072000, 3584000, 3788800}
\* live properties of a host: quickStats.overallCpuUsage (MHz), hardware.cpuMhz,
\* hardware.numCpuCores, quickStats.overallMemoryUsage (MB), hardware.memorySize (bytes)
HostCpuUsages == {1200, 2400, 4320}
HostCpuMhz == {2400}
HostCpuCores == {2}
HostMemUsages == {512, 820, 1000}
HostMemorySizes == {1073741824}
\* live properties of a datastore: summary.capacity and summary.freeSpace (bytes)
DsCapacities == {1073741824}
DsFreeSpaces == {134217728, 268435456, 536870912}

QualifiedNames == {"cpu.ready.summation", "cpu.usage.average", "mem.active.average",
                   "mem.shared.average", "mem.vmmemctl.average",
                   "datastore.numberReadAveraged.average",
                   "datastore.numberWriteAveraged.average",
                   "datastore.totalReadLatency.average",
                   "datastore.totalWriteLatency.average",
                   "net.received.average", "net.transmitted.average"}

\* the id the provider gives a counter
CounterId(name) ==
    CASE name = "cpu.ready.summation" -> 12
      [] name = "cpu.usage.average" -> 2
      [] name = "mem.active.average" -> 33
      [] name = "mem.shared.average" -> 37
      [] name = "mem.vmmemctl.average" -> 90
      [] name = "datastore.numberReadAveraged.average" -> 178
      [] name = "datastore.numberWriteAveraged.average" -> 179
      [] name = "datastore.totalReadLatency.average" -> 182
      [] name = "datastore.totalWriteLatency.average" -> 183
      [] name = "net.received.average" -> 148
      [] name = "net.transmitted.average" -> 149

\* maps that create_perf_dictionary can return: the provider's catalog with
\* every name the checks use, or one that lacks the name of a single-query
\* check, of the first query or of the second query of a composite check
MissingNames == {{}, {"cpu.usage.average"}, {"net.received.average"},
                 {"datastore.numberWriteAveraged.average"}}
Catalogs == { [n \in (QualifiedNames \ m) |-> CounterId(n)] : m \in MissingNames }

RECURSIVE SeqsUpTo(_, _)
SeqsUpTo(S, n) == IF n = 0 THEN {<<>>}
                  ELSE LET shorter == SeqsUpTo(S, n - 1)
                       IN shorter \cup {Append(s, x) : s \in {t \in shorter : Len(t) = n - 1}, x \in S}

\* records returned by get_properties for the requested kind
VmRecords == [name : {"web01"}, powerState : PowerStates]
             \cup [name : Names \ {"web01"}, powerState : {"poweredOn"}]
ObjRecords == [name : Names, powerState : {"n/a"}]
VmLists == SeqsUpTo(VmRecords, MaxObjs)
ObjLists == SeqsUpTo(ObjRecords, MaxObjs)

\* answers of perfManager.QueryPerf for the one query sent: no entity metric
\* at all, or one entity metric with one metric series of samples
\* each series holds 1..MaxSamples samples of a steady metric
SampleSeries == { [i \in 1..n |-> v] : n \in 1..MaxSamples, v \in RawValues }
PerfResults == {<<>>} \cup { << <<s>> >> : s \in SampleSeries }

(* ---------------------------------------------------------------------- *)
(* The counter catalog and its cache file (pyvinga.py 422-462)             *)
(* ---------------------------------------------------------------------- *)
\* timedelta(days=7): the age, in days, beyond which the cache file is rebuilt
CacheDays == 7
\* days the clock runs through in the catalog specification
MaxTime == 8

\* content.about.name of the two provider kinds and the cache file of each
AboutNames == {"VMware vCenter Server", "VMware ESXi"}
file_perf_dic(about) ==
    IF about = "VMware vCenter Server" THEN "/tmp/vcenter_perfdic.txt"
    ELSE "/tmp/host_perfdic.txt"
CacheFileNames == { file_perf_dic(a) : a \in AboutNames }

\* an element of content.perfManager.perfCounter
PerfCounter(g, n, r, k) == [groupInfo |-> g, nameInfo |-> n, rollupType |-> r, key |-> k]
\* "{}.{}.{}".format(counter.groupInfo.key, counter.nameInfo.key, counter.rollupType)
counter_full(counter) ==
    counter.groupInfo \o "." \o counter.nameInfo \o "." \o counter.rollupType

\* the counters the checks use, as a provider lists them
VsphereCounters ==
    << PerfCounter("cpu", "usage", "average", 2),
       PerfCounter("cpu", "ready", "summation", 12),
       PerfCounter("mem", "active", "average", 33),
       PerfCounter("mem", "shared", "average", 37),
       PerfCounter("mem", "vmmemctl", "average", 90),
       PerfCounter("net", "received", "average", 148),
       PerfCounter("net", "transmitted", "average", 149),
       PerfCounter("datastore", "numberReadAveraged", "average", 178),
       PerfCounter("datastore", "numberWriteAveraged", "average", 179),
       PerfCounter("datastore", "totalReadLatency", "average", 182),
       PerfCounter("datastore", "totalWriteLatency", "average", 183) >>

\* counter lists a provider answers with in the main specification: all the
\* counters above but those of one element of MissingNames
ProviderLists ==
    { SelectSeq(VsphereCounters, LAMBDA c : counter_full(c) \notin m) : m \in MissingNames }

\* counter lists of the catalog specification: none, one counter, a qualified
\* name listed twice with two ids, and ids of two and three digits
CatalogLists ==
    { <<>>,
      << PerfCounter("cpu", "usage", "average", 2) >>,
      << PerfCounter("cpu", "usage", "average", 2),
         PerfCounter("mem", "active", "average", 33),
         PerfCounter("cpu", "usage", "average", 6) >>,
      << PerfCounter("net", "received", "average", 148),
         PerfCounter("cpu", "ready", "summation", 12) >> }

\* text is a sequence of pieces: a qualified name, a "," a digit or a "\n"
Digit(d) == CASE d = 0 -> "0" [] d = 1 -> "1" [] d = 2 -> "2" [] d = 3 -> "3"
              [] d = 4 -> "4" [] d = 5 -> "5" [] d = 6 -> "6" [] d = 7 -> "7"
              [] d = 8 -> "8" [] d = 9 -> "9"
Digits == { Digit(d) : d \in 0..9 }
DigitValue(c) == CHOOSE d \in 0..9 : Digit(d) = c

\* str(n) of a non-negative integer
RECURSIVE str(_)
str(n) == IF n < 10 THEN <<Digit(n)>> ELSE Append(str(n \div 10), Digit(n % 10))

\* s.strip(), which int() applies to its argument
RECURSIVE strip(_)
strip(s) == IF s # <<>> /\ Head(s) = "\n" THEN strip(Tail(s))
            ELSE IF s # <<>> /\ s[Len(s)] = "\n" THEN strip(SubSeq(s, 1, Len(s) - 1))
            ELSE s

RECURSIVE DigitsValue(_)
DigitsValue(s) == IF s = <<>> THEN 0
                  ELSE 10 * DigitsValue(SubSeq(s, 1, Len(s) - 1)) + DigitValue(s[Len(s)])

\* int(s) without the stripping of white space
int_unstripped(s) ==
    IF s # <<>> /\ \A i \in 1..Len(s) : s[i] \in Digits
    THEN Some(DigitsValue(s)) ELSE None

\* int(s): Some(value), or None where Python raises ValueError
int(s) == LET t == strip(s)
          IN IF t # <<>> /\ \A i \in 1..Len(t) : t[i] \in Digits
             THEN Some(DigitsValue(t)) ELSE None

\* s.split(sep): the fields between the separators
RECURSIVE split(_, _)
split(s, sep) ==
    IF \E i \in 1..Len(s) : s[i] = sep
    THEN LET i == CHOOSE j \in 1..Len(s) : s[j] = sep /\ \A k \in 1..(j - 1) : s[k] # sep
         IN <<SubSeq(s, 1, i - 1)>> \o split(SubSeq(s, i + 1, Len(s)), sep)
    ELSE <<s>>

\* the string a field of pieces is
RECURSIVE Join(_)
Join(s) == IF s = <<>> THEN "" ELSE Head(s) \o Join(Tail(s))

\* a cache file: its modification time and its lines
CacheFile(mtime, lines) == Some([mtime |-> mtime, lines |-> lines])

\* the line written for a counter (452)
CounterLine(counter) == <<counter_full(counter), ",">> \o str(counter.key) \o <<"\n">>

\* perf_dict after the loop over perfList (449-452): of two counters with
\* one qualified name the later one's id stays
DictOfList(perfList) ==
    [n \in { counter_full(perfList[i]) : i \in DOMAIN perfList } |->
        LET last == CHOOSE i \in DOMAIN perfList :
                        /\ counter_full(perfList[i]) = n
                        /\ \A j \in (i + 1)..Len(perfList) : counter_full(perfList[j]) # n
        IN perfList[last].key]

\* what a line of the file assigns (458): Some(<<name, id>>), or None where
\* line.split(',')[1] raises IndexError or int() raises ValueError
ParseLine(line) ==
    LET fields == split(line, ",")
    IN IF Len(fields) < 2 THEN None
       ELSE IF int(fields[2]) = None THEN None
       ELSE Some(<<Join(fields[1]), int(fields[2])[1]>>)

\* perf_dict after the loop over the lines of the file (457-458): Some(map),
\* or None where a line raises; of two lines with one name the later stays
DictOfLines(lines) ==
    IF \E i \in DOMAIN lines : ParseLine(lines[i]) = None THEN None
    ELSE Some([n \in { ParseLine(lines[i])[1][1] : i \in DOMAIN lines } |->
                  LET last == CHOOSE i \in DOMAIN lines :
                                  /\ ParseLine(lines[i])[1][1] = n
                                  /\ \A j \in (i + 1)..Len(lines) :
                                        ParseLine(lines[j])[1][1] # n
                  IN ParseLine(lines[last])[1][2]])

\* write_perf_dictionary with >= for > in the age test: a file of exactly
\* CacheDays days is rebuilt
write_perf_dictionary_atCacheDays(file, today, perfList) ==
    IF file = None \/ file[1].mtime <= today - CacheDays
    THEN [queried |-> TRUE,
          file |-> CacheFile(today, [i \in 1..Len(perfList) |-> CounterLine(perfList[i])]),
          perf_dict |-> Some(DictOfList(perfList))]
    ELSE [queried |-> FALSE, file |-> file, perf_dict |-> DictOfLines(file[1].lines)]

\* write_perf_dictionary (436-462) on the cache file as it is today, None when
\* there is none, with perfList what the provider answers if it is asked:
\* whether it was asked, the file afterwards and the map returned
write_perf_dictionary(file, today, perfList) ==
    IF file = None \/ file[1].mtime < today - CacheDays
    THEN [queried |-> TRUE,
          file |-> CacheFile(today, [i \in 1..Len(perfList) |-> CounterLine(perfList[i])]),
          perf_dict |-> Some(DictOfList(perfList))]
    ELSE [queried |-> FALSE, file |-> file, perf_dict |-> DictOfLines(file[1].lines)]

(* ---------------------------------------------------------------------- *)
(* The hierarchy resolver (vi_setup.py 454-513)                            *)
(* ---------------------------------------------------------------------- *)
\* lengths of the host and VM lists the provider answers with
MaxHosts == 3
MaxVms == 2

\* a name is a sequence of pieces, "." being a piece of its own
\* s.lower() of a piece
LowerPiece(p) == CASE p = "ESX01" -> "esx01"
                   [] p = "DC1" -> "dc1"
                   [] p = "DC2" -> "dc2"
                   [] p = "Prod" -> "prod"
                   [] p = "Test" -> "test"
                   [] OTHER -> p
lower(s) == [i \in DOMAIN s |-> LowerPiece(s[i])]

\* s.startswith(prefix)
startswith(s, prefix) == Len(s) >= Len(prefix) /\ SubSeq(s, 1, Len(prefix)) = prefix

\* the managed objects above the hosts: a datacenter, its host folder, and a
\* container of hosts in that folder
Datacenter(name) == [name |-> name]
HostFolder(dc) == [name |-> <<"host">>, parent |-> Datacenter(dc)]
Container(kind, id, name, dc) ==
    [kind |-> kind, id |-> id, name |-> name, parent |-> HostFolder(dc)]

\* str() of a reference to a container: its type and id between quotes
TypeName(kind) == CASE kind = "ComputeResource" -> <<"vim.", "Compute", "Resource">>
                    [] kind = "ClusterComputeResource" ->
                           <<"vim.", "Cluster", "Compute", "Resource">>
                    [] kind = "Folder" -> <<"vim.", "Folder">>
StrOfRef(obj) == <<"'">> \o TypeName(obj.kind) \o <<":", obj.id, "'">>

\* containers of the provider: stand-alone compute resources in two
\* datacenters, two clusters, and a folder holding a host directly
Containers ==
    { Container("ComputeResource", "domain-s1", <<"ESX01", ".", "lab", ".", "local">>, <<"DC1">>),
      Container("ComputeResource", "domain-s4", <<"esx04">>, <<"DC2">>),
      Container("ClusterComputeResource", "domain-c7", <<"Prod">>, <<"DC1">>),
      Container("Folder", "group-h9", <<"host">>, <<"DC2">>),
      Container("ComputeResource", "domain-s6", <<"esx06">>, <<"DC1">>),
      Container("ClusterComputeResource", "domain-c8", <<"Test">>, <<"DC1">>) }

\* what get_properties returns for a host: name, parent and moref
HostProp(name, moref, parentId) ==
    [name |-> name, moref |-> moref,
     parent |-> CHOOSE c \in Containers : c.id = parentId]
HostProps ==
    { HostProp(<<"ESX01", ".", "lab", ".", "local">>, "host-1", "domain-s1"),
      HostProp(<<"esx02">>, "host-2", "domain-c7"),
      HostProp(<<"esx03", ".", "lab", ".", "local">>, "host-3", "domain-c7"),
      HostProp(<<"esx04">>, "host-4", "domain-s4"),
      HostProp(<<"esx05">>, "host-5", "group-h9") }

\* what get_properties returns for a VM: name and runtime.host
VmProp(name, host) == [name |-> name, runtime_host |-> host]
VmProps ==
    { VmProp(<<"web01">>, "host-1"), VmProp(<<"db01">>, "host-2"),
      VmProp(<<"app01">>, "host-3"), VmProp(<<"old01">>, "host-5") }

HostPropLists == SeqsUpTo(HostProps, MaxHosts)
VmPropLists == SeqsUpTo(VmProps, MaxVms)

\* host['parent'].parent.name: the name of the folder the container is in
dcname_of_folder(parent) == parent.parent.name
\* host['parent'].parent.parent.name (471, 481)
dcname_of(parent) == parent.parent.parent.name

\* list.append(x) whether or not x is in the list
AppendNew_always(list, x) == Append(list, x)
\* list.append(x) unless x is in the list (475-478, 485-486, 490-491)
AppendNew(list, x) == IF \E i \in DOMAIN list : list[i] = x THEN list ELSE Append(list, x)

\* a host record after the first loop: with the keys clustername (None for
\* False) and dcname when one of the two branches was taken, without them
\* otherwise
ClassifiedHost(host, clustername, dc) ==
    [name |-> host.name, moref |-> host.moref, parent |-> host.parent,
     classified |-> TRUE, clustername |-> clustername, dcname |-> dc]
UnclassifiedHost(host) ==
    [name |-> host.name, moref |-> host.moref, parent |-> host.parent,
     classified |-> FALSE, clustername |-> None, dcname |-> <<>>]

\* what the first loop (468-491) does to a host record
ClassifyHost(host) ==
    IF startswith(StrOfRef(host.parent), <<"'", "vim.", "Compute">>)
    THEN ClassifiedHost(host, None, dcname_of(host.parent))
    ELSE IF startswith(StrOfRef(host.parent), <<"'", "vim.", "Cluster">>)
    THEN ClassifiedHost(host, Some(host.parent.name), dcname_of(host.parent))
    ELSE UnclassifiedHost(host)

\* the three lists after the first loop has gone through the records hosts,
\* given as the loop leaves them
RECURSIVE HostLoop(_)
HostLoop(hosts) ==
    IF hosts = <<>>
    THEN [dc_sahost_list |-> <<>>, dc_cl_list |-> <<>>, cl_host_list |-> <<>>]
    ELSE LET host == hosts[Len(hosts)]
         IN IF ~host.classified THEN HostLoop(SubSeq(hosts, 1, Len(hosts) - 1))
            ELSE IF host.clustername = None
            THEN [HostLoop(SubSeq(hosts, 1, Len(hosts) - 1)) EXCEPT
                    !.dc_sahost_list = AppendNew(@, [hostname |-> host.name,
                                                    dcname |-> host.dcname])]
            ELSE [HostLoop(SubSeq(hosts, 1, Len(hosts) - 1)) EXCEPT
                    !.dc_cl_list = AppendNew(@, [clustername |-> host.clustername[1],
                                                dcname |-> host.dcname]),
                    !.cl_host_list = AppendNew(@, [clustername |-> host.clustername[1],
                                                  hostname |-> host.name])]

\* vm['hostgroup_name'] with the host name whole: no split('.')[0]
vm_hostgroup_name_fqdn(host) ==
    IF host.clustername = None
    THEN Join(lower(host.dcname)) \o "-" \o Join(lower(host.name)) \o "-vms"
    ELSE Join(lower(host.dcname)) \o "-" \o Join(lower(host.clustername[1])) \o "-vms"

\* vm['hostgroup_name'] of a VM on the host (499-502)
vm_hostgroup_name(host) ==
    IF host.clustername = None
    THEN Join(lower(host.dcname)) \o "-" \o Join(lower(split(host.name, ".")[1])) \o "-vms"
    ELSE Join(lower(host.dcname)) \o "-" \o Join(lower(host.clustername[1])) \o "-vms"

\* a VM record after the second loop: with the keys hostname, clustername,
\* dcname and hostgroup_name when a host matched, without them otherwise
PlacedVm(vm, host) ==
    [name |-> vm.name, placed |-> TRUE, hostname |-> host.name,
     clustername |-> host.clustername, dcname |-> host.dcname,
     hostgroup_name |-> vm_hostgroup_name(host)]
UnplacedVm(vm) ==
    [name |-> vm.name, placed |-> FALSE, hostname |-> <<>>, clustername |-> None,
     dcname |-> <<>>, hostgroup_name |-> ""]

\* the inner loop (494-502) for one VM: Some(record), or None where reading
\* host['clustername'] raises KeyError
RECURSIVE PlaceVm(_, _)
PlaceVm(vm, hosts) ==
    IF hosts = <<>> THEN Some(UnplacedVm(vm))
    ELSE LET sofar == PlaceVm(vm, SubSeq(hosts, 1, Len(hosts) - 1))
             host == hosts[Len(hosts)]
         IN IF sofar = None THEN None
            ELSE IF vm.runtime_host # host.moref THEN sofar
            ELSE IF ~host.classified THEN None
            ELSE Some(PlacedVm(vm, host))

\* get_hierarchy (454-513) on the VM records get_properties returned and the
\* host records as the first loop leaves them: Some of the five values
\* returned, or None where a KeyError is raised (by host['clustername'] at
\* 497, by vm['dcname'] at 508)
get_hierarchy(vm_list, hosts) ==
    LET placed == [i \in DOMAIN vm_list |-> PlaceVm(vm_list[i], hosts)]
    IN IF \E i \in DOMAIN placed : placed[i] = None \/ ~placed[i][1].placed
       THEN None
       ELSE LET hl == HostLoop(hosts)
            IN Some([vm_props |-> [i \in DOMAIN placed |-> placed[i][1]],
                     dc_list |-> { placed[i][1].dcname : i \in DOMAIN placed },
                     dc_sahost_list |-> hl.dc_sahost_list,
                     dc_cl_list |-> hl.dc_cl_list,
                     cl_host_list |-> hl.cl_host_list])

(* ---------------------------------------------------------------------- *)
(* The configuration emitters (vi_setup.py 76-451, 516-530)                *)
(* ---------------------------------------------------------------------- *)
\* lengths of the host and VM lists of the emission specification
MaxEmitHosts == 2
MaxEmitVms == 1

\* the host and VM records of the emission specification: those above, a
\* second stand-alone host in DC1 and a host of a second cluster in DC1
EmitHostProps ==
    HostProps \cup { HostProp(<<"esx06">>, "host-6", "domain-s6"),
                     HostProp(<<"esx07">>, "host-7", "domain-c8") }
EmitVmProps == VmProps \cup { VmProp(<<"test01">>, "host-7") }
EmitHostPropLists == SeqsUpTo(EmitHostProps, MaxEmitHosts)
EmitVmPropLists == SeqsUpTo(EmitVmProps, MaxEmitVms)

\* what get_properties returns for the datacenters: name and datastore
DatacenterProp(name, datastores) == [name |-> name, datastore |-> datastores]
DatacenterPropLists ==
    { << DatacenterProp(<<"DC1">>, <<>>), DatacenterProp(<<"DC2">>, <<>>) >>,
      << DatacenterProp(<<"DC1">>, << <<"ds1">> >>),
         DatacenterProp(<<"DC2">>, << <<"ds2", ".", "nfs">> >>) >> }

\* get_datastore_hierarchy (516-530): one record per datastore of each
\* datacenter, in the order of the datacenters and of their datastores
RECURSIVE get_datastore_hierarchy(_)
get_datastore_hierarchy(dc_props) ==
    IF dc_props = <<>> THEN <<>>
    ELSE get_datastore_hierarchy(SubSeq(dc_props, 1, Len(dc_props) - 1))
         \o [i \in DOMAIN dc_props[Len(dc_props)].datastore |->
                [dcname |-> dc_props[Len(dc_props)].name,
                 dsname |-> dc_props[Len(dc_props)].datastore[i]]]

\* the orders in which a for loop may go through a Python set
SetOrders(S) == { s \in [1..Cardinality(S) -> S] : \A x \in S : \E i \in DOMAIN s : s[i] = x }

\* the configuration files: whether the command file is written, and the
\* hostgroup, host and service objects appended to the object files, in the
\* order they are appended; file names the file an object is in
EmptyConfig == [commands |-> FALSE, hostgroups |-> <<>>, hosts |-> <<>>, services |-> <<>>]

\* create_commands (76-90)
create_commands(cfg) == [cfg EXCEPT !.commands = TRUE]

\* the emitter of a vCenter while it runs: the files, the four lists of
\* hostgroup names, and the local variable hostgroup_name
EmitStart(cfg) ==
    [cfg |-> cfg, host_hglist |-> <<>>, ds_hglist |-> <<>>, cl_hglist |-> <<>>,
     vm_hglist |-> <<>>, hostgroup_name |-> ""]

\* create_vc_hostgroup (365-383): a hostgroup object appended to the config
\* file of the datacenter
create_vc_hostgroup(e, dc, hostgroup_name, hostgroup_type, cl_name) ==
    [e EXCEPT !.cfg.hostgroups =
        Append(@, [file |-> <<"vc_">> \o dc \o <<"_config.cfg">>,
                   hostgroup_name |-> hostgroup_name,
                   alias |-> Join(dc) \o " " \o cl_name \o " " \o hostgroup_type])]

\* create_vc_host (386-425): a host object appended to the hosts file of the
\* datacenter; parents is "" where the line is not written
create_vc_host(e, dc, host_name, hostgroup_name, host_type, cl_name) ==
    [e EXCEPT !.cfg.hosts =
        Append(@, [file |-> <<"vc_">> \o dc \o <<"_hosts.cfg">>,
                   host_name |-> IF host_type = "cluster" THEN cl_name
                                 ELSE IF host_type \in {"clhost", "sahost"}
                                 THEN Join(host_name)
                                 ELSE Join(split(host_name, ".")[1]),
                   host_type |-> host_type,
                   parents |-> IF host_type \in {"clhost", "vm"} THEN cl_name ELSE "",
                   hostgroups |-> hostgroup_name])]

\* create_vc_service (428-451): a service object appended to the services
\* file; hostgroup_name is given as the list that ','.join makes one string of
create_vc_service(cfg, hostgroup_list, s_description, counter_type, counter, warning, critical) ==
    [cfg EXCEPT !.services =
        Append(@, [file |-> <<"vc_services_config.cfg">>,
                   hostgroup_name |-> hostgroup_list,
                   service_description |-> s_description,
                   counter_type |-> counter_type, counter |-> counter,
                   warning |-> warning, critical |-> critical])]

\* 291-300: the loop over the stand-alone hosts, for the datacenter dc
RECURSIVE SaHostLoop(_, _, _)
SaHostLoop(e, dc, dc_sahost_list) ==
    IF dc_sahost_list = <<>> THEN e
    ELSE LET sahost == Head(dc_sahost_list)
             short == Join(split(sahost.hostname, ".")[1])
             hostgroup_name == Join(lower(dc)) \o "-" \o short \o "-vms"
             e1 == create_vc_host(e, dc, sahost.hostname, e.hostgroup_name, "sahost", "")
             e2 == create_vc_hostgroup(e1, dc, hostgroup_name, "Host VMs", short)
         IN SaHostLoop(IF dc = sahost.dcname
                       THEN [e2 EXCEPT !.hostgroup_name = hostgroup_name,
                                       !.vm_hglist = Append(@, hostgroup_name)]
                       ELSE e,
                       dc, Tail(dc_sahost_list))

\* 285-300: the hostgroup of the stand-alone hosts of dc and its members
SaHostBlock(e, dc, dc_sahost_list) ==
    IF dc_sahost_list = <<>> THEN e
    ELSE LET hostgroup_name == Join(lower(dc)) \o "-hosts"
             e1 == create_vc_hostgroup(e, dc, hostgroup_name, "Datacenter Hosts", "")
         IN SaHostLoop([e1 EXCEPT !.hostgroup_name = hostgroup_name,
                                  !.host_hglist = Append(@, hostgroup_name)],
                       dc, dc_sahost_list)

\* 307-311: the loop over the datastores, for the datacenter dc
RECURSIVE DatastoreLoop(_, _, _)
DatastoreLoop(e, dc, ds_list) ==
    IF ds_list = <<>> THEN e
    ELSE DatastoreLoop(IF dc = Head(ds_list).dcname
                       THEN create_vc_host(e, dc, Head(ds_list).dsname, e.hostgroup_name,
                                           "datastore", "")
                       ELSE e,
                       dc, Tail(ds_list))

\* 302-311: the hostgroup of the datastores of dc and its members
DatastoreBlock(e, dc, ds_list) ==
    IF ds_list = <<>> THEN e
    ELSE LET hostgroup_name == Join(lower(dc)) \o "-datastores"
             e1 == create_vc_hostgroup(e, dc, hostgroup_name, "Datacenter Datastores", "")
         IN DatastoreLoop([e1 EXCEPT !.hostgroup_name = hostgroup_name,
                                     !.ds_hglist = Append(@, hostgroup_name)],
                          dc, ds_list)

\* 333-337: the loop over the hosts of clusters, for the cluster dc_cl
RECURSIVE ClHostLoop(_, _, _, _)
ClHostLoop(e, dc, dc_cl, cl_host_list) ==
    IF cl_host_list = <<>> THEN e
    ELSE ClHostLoop(IF dc_cl.clustername = Head(cl_host_list).clustername
                    THEN create_vc_host(e, dc, Head(cl_host_list).hostname, e.hostgroup_name,
                                        "clhost", Join(dc_cl.clustername))
                    ELSE e,
                    dc, dc_cl, Tail(cl_host_list))

\* 312-337: the loop over the clusters, for the datacenter dc
RECURSIVE ClusterLoop(_, _, _, _)
ClusterLoop(e, dc, dc_cl_list, cl_host_list) ==
    IF dc_cl_list = <<>> THEN e
    ELSE LET dc_cl == Head(dc_cl_list)
             cl_name == Join(dc_cl.clustername)
             clusters == Join(lower(dc)) \o "-clusters "
             vms == Join(lower(dc)) \o "-" \o Join(lower(dc_cl.clustername)) \o "-vms "
             hosts == Join(lower(dc)) \o "-" \o Join(lower(dc_cl.clustername)) \o "-hosts "
             e1 == create_vc_hostgroup(e, dc, clusters, "Datacenter Clusters", "")
             e2 == create_vc_host(e1, dc, lower(dc_cl.clustername), clusters, "cluster", cl_name)
             e3 == create_vc_hostgroup([e2 EXCEPT !.cl_hglist = Append(@, clusters)],
                                       dc, vms, "Cluster VMs", cl_name)
             e4 == create_vc_hostgroup([e3 EXCEPT !.vm_hglist = Append(@, vms)],
                                       dc, hosts, "Cluster Hosts", cl_name)
             e5 == ClHostLoop([e4 EXCEPT !.hostgroup_name = hosts,
                                         !.host_hglist = Append(@, hosts)],
                              dc, dc_cl, cl_host_list)
         IN ClusterLoop(IF dc = dc_cl.dcname THEN e5 ELSE e, dc, Tail(dc_cl_list), cl_host_list)

\* 284-337: the loop over the datacenters, in the order dcs
RECURSIVE DatacenterLoop(_, _, _, _, _, _)
DatacenterLoop(e, dcs, dc_sahost_list, dc_cl_list, cl_host_list, ds_list) ==
    IF dcs = <<>> THEN e
    ELSE LET dc == Head(dcs)
             e1 == SaHostBlock(e, dc, dc_sahost_list)
             e2 == DatastoreBlock(e1, dc, ds_list)
             e3 == ClusterLoop(e2, dc, dc_cl_list, cl_host_list)
         IN DatacenterLoop(e3, Tail(dcs), dc_sahost_list, dc_cl_list, cl_host_list, ds_list)

\* 339-346: the loop over the VMs
RECURSIVE VmLoop(_, _)
VmLoop(e, vms) ==
    IF vms = <<>> THEN e
    ELSE LET vm == Head(vms)
             vm_parent == IF vm.clustername = None THEN Join(split(vm.hostname, ".")[1])
                          ELSE Join(vm.clustername[1])
         IN VmLoop(create_vc_host(e, vm.dcname, vm.name, vm.hostgroup_name, "vm", vm_parent),
                   Tail(vms))

\* 348-362: the services of the VMs, of the datastores and of the hosts
VcServices(e) ==
    LET s1 == create_vc_service(e.cfg, e.vm_hglist, "CPU Ready", "vm", "cpu.ready", 5, 10)
        s2 == create_vc_service(s1, e.vm_hglist, "Core Information", "vm", "core", 0, 0)
        s3 == create_vc_service(s2, e.vm_hglist, "CPU Usage", "vm", "cpu.usage", 50, 90)
        s4 == create_vc_service(s3, e.vm_hglist, "Memory Active", "vm", "mem.active", 80, 90)
        s5 == create_vc_service(s4, e.vm_hglist, "Memory Shared", "vm", "mem.shared", 98, 99)
        s6 == create_vc_service(s5, e.vm_hglist, "Memory Balloon", "vm", "mem.balloon", 50, 60)
        s7 == create_vc_service(s6, e.vm_hglist, "Datastore IO", "vm", "datastore.io", 250, 500)
        s8 == create_vc_service(s7, e.vm_hglist, "Datastore Latency", "vm",
                                "datastore.latency", 10, 20)
        s9 == create_vc_service(s8, e.vm_hglist, "Network Usage", "vm", "network.usage", 10, 100)
        s10 == create_vc_service(s9, e.ds_hglist, "Datastore Space", "datastore", "space", 75, 85)
    IN create_vc_service(s10, e.host_hglist, "Core Information", "host", "core", 0, 0)

\* create_vcenter_config (265-362) on what get_hierarchy returned, the
\* datastore table and the order dcs in which the set dc_list is gone through
create_vcenter_config(cfg, h, dcs, ds_list) ==
    VcServices(VmLoop(DatacenterLoop(EmitStart(cfg), dcs, h.dc_sahost_list, h.dc_cl_list,
                                     h.cl_host_list, ds_list),
                      h.vm_props))

\* the object files of an ESXi host
EsxiFile(norm_entity, suffix) == <<"vi_">> \o norm_entity \o <<suffix>>

\* create_esxi_hostgroup (134-155)
create_esxi_hostgroup(cfg, hostgroup_type, norm_entity, h_description) ==
    [cfg EXCEPT !.hostgroups =
        Append(@, [file |-> EsxiFile(norm_entity, "_config.cfg"),
                   hostgroup_name |-> Join(norm_entity) \o "-" \o hostgroup_type,
                   alias |-> h_description])]

\* create_esxi_service (158-185): attached to the hostgroup, or to the host
\* itself when group is False (hostgroup_name is then the empty list)
create_esxi_service(cfg, hostgroup_type, norm_entity, s_description, counter_type, counter, warning, critical, group) ==
    [cfg EXCEPT !.services =
        Append(@, [file |-> EsxiFile(norm_entity, "_config.cfg"),
                   hostgroup_name |-> IF group
                                      THEN << Join(norm_entity) \o "-" \o hostgroup_type >>
                                      ELSE <<>>,
                   service_description |-> s_description,
                   counter_type |-> counter_type, counter |-> counter,
                   warning |-> warning, critical |-> critical])]

\* create_esxi_host (188-204), create_esxi_vm (207-227) and create_esxi_ds
\* (230-262): a host object appended to the hosts file of the ESXi host
create_esxi_object(cfg, norm_entity, host_name, host_type, parents, hostgroup_name) ==
    [cfg EXCEPT !.hosts =
        Append(@, [file |-> EsxiFile(norm_entity, "_hosts.cfg"),
                   host_name |-> host_name, host_type |-> host_type,
                   parents |-> parents, hostgroups |-> hostgroup_name])]

\* 115-116: the loop over the VMs
RECURSIVE EsxiVmLoop(_, _, _, _)
EsxiVmLoop(cfg, norm_entity, hostgroup_name, vms) ==
    IF vms = <<>> THEN cfg
    ELSE EsxiVmLoop(create_esxi_object(cfg, norm_entity, Join(Head(vms).name), "vm",
                                       Join(norm_entity), hostgroup_name),
                    norm_entity, hostgroup_name, Tail(vms))

\* create_esxi_config (93-131): the files as it leaves them, and whether it
\* raised; the records of the datastore table have the keys dcname and dsname,
\* so ds['name'] at 126 raises KeyError for the first of them
create_esxi_config(cfg, entity, vmProps, dsProps) ==
    LET norm_entity == split(entity, ".")[1]
        vmgroup == Join(norm_entity) \o "-virtual-machines"
        c0 == create_esxi_hostgroup(
                  create_esxi_object(cfg, norm_entity, Join(entity), "esxi", "", ""),
                  "virtual-machines", norm_entity, "Virtual Machines")
        c1 == create_esxi_service(c0, "virtual-machines", norm_entity, "CPU Ready", "vm",
                                  "cpu.ready", 5, 10, TRUE)
        c2 == create_esxi_service(c1, "virtual-machines", norm_entity, "Core Information", "vm",
                                  "core", 0, 0, TRUE)
        c3 == create_esxi_service(c2, "virtual-machines", norm_entity, "CPU Usage", "vm",
                                  "cpu.usage", 50, 90, TRUE)
        c4 == create_esxi_service(c3, "virtual-machines", norm_entity, "Memory Active", "vm",
                                  "mem.active", 80, 90, TRUE)
        c5 == create_esxi_service(c4, "virtual-machines", norm_entity, "Memory Shared", "vm",
                                  "mem.shared", 98, 99, TRUE)
        c6 == create_esxi_service(c5, "virtual-machines", norm_entity, "Memory Balloon", "vm",
                                  "mem.balloon", 50, 75, TRUE)
        c7 == create_esxi_service(c6, "virtual-machines", norm_entity, "Datastore IO", "vm",
                                  "datastore.io", 250, 500, TRUE)
        c8 == create_esxi_service(c7, "virtual-machines", norm_entity, "Datastore Latency", "vm",
                                  "datastore.latency", 10, 20, TRUE)
        c9 == create_esxi_service(c8, "virtual-machines", norm_entity, "Network Usage", "vm",
                                  "network.usage", 10, 100, TRUE)
        c10 == create_esxi_hostgroup(EsxiVmLoop(c9, norm_entity, vmgroup, vmProps),
                                     "datastores", norm_entity, "Datastores")
        c11 == create_esxi_service(c10, "datastores", norm_entity, "Datastore Space",
                                   "datastore", "space", 50, 60, TRUE)
    IN IF dsProps # <<>>
       THEN [cfg |-> c11, raised |-> TRUE]
       ELSE [cfg |-> create_esxi_service(c11, "hosts", norm_entity, "Core Information", "host",
                                         "core", 0, 0, FALSE),
             raised |-> FALSE]

(* ---------------------------------------------------------------------- *)
(* get_properties and the pages of the provider (pyvinga.py 329-364,      *)
(* vi_setup.py 37-73)                                                      *)
(* ---------------------------------------------------------------------- *)
\* number of pages of a result, and of objects in a page
MaxPages == 2
MaxPageObjs == 2

\* an object of a result: its reference and the properties returned for it
ObjectContent(obj, propSet) == [obj |-> obj, propSet |-> propSet]
DynamicProperty(name, v) == [name |-> name, val |-> v]

\* the objects of the provider: one with both properties asked for, one on
\* which a property is absent
ObjectContents ==
    { ObjectContent("vm-1", << DynamicProperty("name", "web01"),
                               DynamicProperty("runtime.powerState", "poweredOn") >>),
      ObjectContent("vm-2", << DynamicProperty("name", "db01") >>) }

\* a page of the result: its objects, and whether more pages follow it
ResultPages == [objects : SeqsUpTo(ObjectContents, MaxPageObjs), more : BOOLEAN]

\* the results of the provider: at least one page, the last one without a
\* token
PageLists ==
    { ps \in SeqsUpTo(ResultPages, MaxPages) : ps # <<>> /\ ~ps[Len(ps)].more }

\* the response that carries the page at position i: RetrieveResult with its
\* objects and its token, the token standing for the position of the next page
RetrieveResult(ps, i) ==
    [objects |-> ps[i].objects, token |-> IF ps[i].more THEN Some(i + 1) ELSE None]

\* 357-363: the dictionary made of one object, every property under its name
\* and the reference under 'moref'
PropDic(eachProp) ==
    [k \in { eachProp.propSet[i].name : i \in DOMAIN eachProp.propSet } \cup {"moref"} |->
        IF k = "moref" THEN eachProp.obj
        ELSE LET last == CHOOSE i \in DOMAIN eachProp.propSet :
                            /\ eachProp.propSet[i].name = k
                            /\ \A j \in DOMAIN eachProp.propSet :
                                  eachProp.propSet[j].name = k => j <= i
             IN eachProp.propSet[last].val]

(* ---------------------------------------------------------------------- *)
(* State                                                                   *)
(* ---------------------------------------------------------------------- *)
VARIABLES
    prog,       \* which program runs
    args,       \* parsed command line (GetArgs)
    pc,         \* position of the invocation
    si,         \* provider session: "none", "open", "closed"
    atexit,     \* TRUE once Disconnect is registered with atexit
    stdout,     \* lines printed so far
    how,        \* how main ended: "running", "SystemExit", "return"
    val,        \* the SystemExit code, or the value main returned
    exitCode,   \* exit code of the process, None until the process has ended
    inventory,  \* the provider's objects of the requested kind, in its order
    fetched,    \* TRUE once get_properties has returned them
    moref,      \* the matched object and the properties read from it
    perf_dict,  \* the counter catalog in use
    pending,    \* qualified counters still to be queried, with their ids
    statdata,   \* results of the build_query calls made so far
    queries,    \* metric queries issued to the provider
    lastPerf,   \* Some(answer) of the provider to the latest metric query
    disconnects, \* number of Disconnect calls made on the session
    cacheFiles, \* the cache file of each name: None, or its time and lines
    now,        \* the local clock, in days
    call,       \* the latest call of write_perf_dictionary, None before the first
    written,    \* per cache file, the map returned by the call that wrote it
    host_props, \* the host records of get_hierarchy after its first loop
    vm_props,   \* the VM records get_properties returned to get_hierarchy
    hierarchy,  \* Some(what get_hierarchy returned), None before and if it raised
    ds_table,   \* what get_datastore_hierarchy returned
    config,     \* the configuration files
    pages,      \* the pages the provider has for the request of get_properties
    retProps,   \* Some(the latest response), None before the first request
    totalProps, \* the objects collected so far
    continues,  \* number of ContinueRetrievePropertiesEx requests made
    gpOutput,   \* what get_properties returns
    vcclock,    \* the clock of the provider, in seconds
    vchtime,    \* Some(what si.CurrentTime() answered), None before it is asked
    perfCounter, \* the counters of the provider the concurrent invocations ask
    procs       \* the concurrent invocations inside write_perf_dictionary

vars == <<prog, args, pc, si, atexit, stdout, how, val, exitCode, inventory, fetched,
          moref, perf_dict, pending, statdata, queries, lastPerf, disconnects,
          cacheFiles, now, call, written, host_props, vm_props, hierarchy, ds_table, config,
          pages, retProps, totalProps, continues, gpOutput, vcclock, vchtime,
          perfCounter, procs>>

catalogVars == <<cacheFiles, now, call, written>>
setupVars == <<host_props, vm_props, hierarchy, ds_table, config>>
pageVars == <<pages, retProps, totalProps, continues, gpOutput>>

timeVars == <<vcclock, vchtime>>
raceVars == <<perfCounter, procs>>

\* no invocations run side by side
RaceIdle ==
    /\ perfCounter = <<>>
    /\ procs = <<>>

\* the clock of the provider when an invocation starts
ProviderEpoch == 100

\* the provider has not been asked for its time
ClockIdle ==
    /\ vcclock = ProviderEpoch
    /\ vchtime = None

\* no call of get_properties is followed page by page
PagesIdle ==
    /\ pages = <<>>
    /\ retProps = None
    /\ totalProps = <<>>
    /\ continues = 0
    /\ gpOutput = <<>>

NoMoref == [name |-> "", powerState |-> "", memorySizeMB |-> 0]

\* a printed line: its kind, the severity label it starts with ("" when it
\* starts with none), the statistic name or the message, the numeric value,
\* the status string (of a status check) or unit suffix (of a numeric check),
\* and the fields of the performance-data suffix after name=value, in order
Line(kind, label, text, value, status, perf) ==
    [kind |-> kind, label |-> label, text |-> text, value |-> value,
     status |-> status, perf |-> perf]

Init ==
    /\ prog \in Progs
    /\ args \in [type : EntityTypes, entity : {"web01"}, counter : CounterArgs,
                 warning : ThresholdArgs, critical : ThresholdArgs]
    /\ prog = "setup" =>
          args = [type |-> "other", entity |-> "web01", counter |-> "core",
                  warning |-> None, critical |-> None]
    /\ pc = IF prog = "check" THEN "args" ELSE "connect"
    /\ si = "none"
    /\ atexit = FALSE
    /\ stdout = <<>>
    /\ how = "running"
    /\ val = 0
    /\ exitCode = None
    /\ inventory \in (IF prog = "check" /\ args.type = "vm" THEN VmLists
                      ELSE IF prog = "check" /\ args.type \in {"host", "datastore", "cluster"}
                      THEN ObjLists
                      ELSE IF prog = "setup"
                      THEN [hosts : HostPropLists, vms : VmPropLists]
                      ELSE {<<>>})
    /\ fetched = FALSE
    /\ moref = NoMoref
    /\ perf_dict = <<>>
    /\ pending = <<>>
    /\ statdata = <<>>
    /\ queries = <<>>
    /\ lastPerf = None
    /\ disconnects = 0
    /\ cacheFiles = [f \in CacheFileNames |-> None]
    /\ now = 0
    /\ call = None
    /\ written = [f \in CacheFileNames |-> None]
    /\ host_props = <<>>
    /\ vm_props = <<>>
    /\ hierarchy = None
    /\ ds_table = <<>>
    /\ config = EmptyConfig
    /\ PagesIdle
    /\ ClockIdle
    /\ RaceIdle

(* ---------------------------------------------------------------------- *)
(* Rational arithmetic                                                     *)
(* ---------------------------------------------------------------------- *)
RECURSIVE GCD(_, _)
GCD(a, b) == IF b = 0 THEN a ELSE GCD(b, a % b)
Abs(n) == IF n < 0 THEN -n ELSE n
Norm(r) == LET g == GCD(Abs(r[1]), r[2]) IN <<r[1] \div g, r[2] \div g>>
RMul(a, b) == LET x == Norm(<<a[1], b[2]>>)
                  y == Norm(<<b[1], a[2]>>)
              IN Norm(<<x[1] * y[1], x[2] * y[2]>>)
RDiv(a, b) == RMul(a, <<b[2], b[1]>>)
RSub(a, b) == Norm(<<a[1] * b[2] - b[1] * a[2], a[2] * b[2]>>)
RInt(n) == <<n, 1>>

(* ---------------------------------------------------------------------- *)
(* How a step of main ends                                                 *)
(* ---------------------------------------------------------------------- *)
NoLine == Line("none", "", "", RInt(0), "", <<>>)
\* print(line) followed by exit(code)
ExitWith(line, code) == [k |-> "exit", line |-> line, code |-> code, keys |-> <<>>]
\* an exception caught by main's except clauses (585-590): print, return -1
FaultWith(msg) == [k |-> "return", line |-> Line("fault", "", msg, RInt(0), "", <<>>),
                   code |-> -1, keys |-> <<>>]
\* main runs to its last line (592): return 0
ReturnWith == [k |-> "return", line |-> NoLine, code |-> 0, keys |-> <<>>]
\* the counter function goes on to its build_query calls
QueryWith(keys) == [k |-> "query", line |-> NoLine, code |-> 0, keys |-> keys]

(* ---------------------------------------------------------------------- *)
(* Output functions (pyvinga.py 367-419)                                   *)
(* ---------------------------------------------------------------------- *)
\* "{:.1f}".format(r) of a value r >= 0: the nearest tenth, a tie going to
\* the even one
Format1f(r) ==
    LET n == r[1] * 10
        q == n \div r[2]
        m == n % r[2]
        t == IF 2 * m > r[2] \/ (2 * m = r[2] /\ q % 2 = 1) THEN q + 1 ELSE q
    IN Join(str(t \div 10)) \o "." \o Digit(t % 10)

\* what a line of print_output_float starts with: "{0} - {1} is {2:.1f}{3}"
FloatText(line) ==
    line.label \o " - " \o line.text \o " is " \o Format1f(line.value) \o line.status

\* print_output_float with strict comparisons (> for >=)
print_output_float_strict(finalOutput, statName, warnValue, critValue, suffix, min_value, max_value) ==
    IF RLt(critValue, finalOutput)
    THEN ExitWith(Line("float", state_tuple[STATE_CRITICAL + 1], statName, finalOutput, suffix,
                       <<warnValue, critValue>>), STATE_CRITICAL)
    ELSE IF RLt(warnValue, finalOutput)
    THEN ExitWith(Line("float", state_tuple[STATE_WARNING + 1], statName, finalOutput, suffix,
                       <<warnValue, critValue>>), STATE_WARNING)
    ELSE ExitWith(Line("float", state_tuple[STATE_OK + 1], statName, finalOutput, suffix,
                       <<warnValue, critValue, min_value, max_value>>), STATE_OK)

\* the CRITICAL and WARNING format strings end at {6}: warn and crit only;
\* the OK format string goes on to {7};{8}: min and max as well
print_output_float(finalOutput, statName, warnValue, critValue, suffix, min_value, max_value) ==
    IF RGe(finalOutput, critValue)
    THEN ExitWith(Line("float", state_tuple[STATE_CRITICAL + 1], statName, finalOutput, suffix,
                       <<warnValue, critValue>>), STATE_CRITICAL)
    ELSE IF RGe(finalOutput, warnValue)
    THEN ExitWith(Line("float", state_tuple[STATE_WARNING + 1], statName, finalOutput, suffix,
                       <<warnValue, critValue>>), STATE_WARNING)
    ELSE ExitWith(Line("float", state_tuple[STATE_OK + 1], statName, finalOutput, suffix,
                       <<warnValue, critValue, min_value, max_value>>), STATE_OK)

print_output_string(finalOutput, statName, warnValue, critValue, unkValue) ==
    IF finalOutput = critValue
    THEN ExitWith(Line("string", state_tuple[STATE_CRITICAL + 1], statName, RInt(0), finalOutput,
                       <<>>), STATE_CRITICAL)
    ELSE IF finalOutput = warnValue
    THEN ExitWith(Line("string", state_tuple[STATE_WARNING + 1], statName, RInt(0), finalOutput,
                       <<>>), STATE_WARNING)
    ELSE IF finalOutput = unkValue
    THEN ExitWith(Line("string", state_tuple[STATE_UNKNOWN + 1], statName, RInt(0), finalOutput,
                       <<>>), STATE_WARNING)
    ELSE ExitWith(Line("string", state_tuple[STATE_OK + 1], statName, RInt(0), finalOutput,
                       <<>>), STATE_OK)

(* ---------------------------------------------------------------------- *)
(* Checks that read live properties only (pyvinga.py 73-149, 292-315)      *)
(* ---------------------------------------------------------------------- *)
vm_status(overallStatus) ==
    print_output_string(overallStatus, "Virtual Machine Status", "yellow", "red", "gray")

vm_core == ExitWith(Line("info", "", "vm core", RInt(0), "", <<>>), STATE_OK)

host_core == ExitWith(Line("info", "", "host core", RInt(0), "", <<>>), STATE_OK)

host_cpu_usage(overallCpuUsage, cpuMhz, numCpuCores, warning, critical) ==
    LET host_total_cpu == cpuMhz * numCpuCores
        final_output == RMul(RDiv(RInt(overallCpuUsage), RInt(host_total_cpu)), RInt(100))
    IN print_output_float(final_output, "CPU Usage", RInt(warning), RInt(critical), "%",
                          RInt(0), RInt(100))

host_mem_usage(overallMemoryUsage, memorySize, warning, critical) ==
    LET host_total_memory == RDiv(RDiv(RInt(memorySize), RInt(1024)), RInt(1024))
        final_output == RMul(RDiv(RInt(overallMemoryUsage), host_total_memory), RInt(100))
    IN print_output_float(final_output, "Memory Usage", RInt(warning), RInt(critical), "%",
                          RInt(0), RInt(100))

cl_status(overallStatus) ==
    print_output_string(overallStatus, "Cluster Status", "yellow", "red", "gray")

ds_space(capacity, freeSpace, warning, critical) ==
    LET datastore_capacity == RDiv(RDiv(RDiv(RInt(capacity), RInt(1024)), RInt(1024)), RInt(1024))
        datastore_free == RDiv(RDiv(RDiv(RInt(freeSpace), RInt(1024)), RInt(1024)), RInt(1024))
        datastore_used_pct == RMul(RSub(RInt(1), RDiv(datastore_free, datastore_capacity)), RInt(100))
    IN print_output_float(datastore_used_pct, "Datastore Used Space", RInt(warning), RInt(critical),
                          "%", RInt(0), RInt(100))

ds_status(overallStatus) ==
    print_output_string(overallStatus, "Datastore Status", "yellow", "red", "gray")

(* ---------------------------------------------------------------------- *)
(* Checks that query performance counters (pyvinga.py 152-289)             *)
(* ---------------------------------------------------------------------- *)
VmPerfCounters == {"cpu.ready", "cpu.usage", "mem.active", "mem.shared", "mem.balloon",
                   "datastore.io", "datastore.latency", "network.usage"}

MemCounters == {"mem.active", "mem.shared", "mem.balloon"}

Key(name, instance) == [name |-> name, instance |-> instance]

\* the stat_lookup calls of each counter function, in order, each with the
\* instance its build_query call passes
vm_counter_keys(counter) ==
    CASE counter = "cpu.ready" -> <<Key("cpu.ready.summation", "")>>
      [] counter = "cpu.usage" -> <<Key("cpu.usage.average", "")>>
      [] counter = "mem.active" -> <<Key("mem.active.average", "")>>
      [] counter = "mem.shared" -> <<Key("mem.shared.average", "")>>
      [] counter = "mem.balloon" -> <<Key("mem.vmmemctl.average", "")>>
      [] counter = "datastore.io" -> <<Key("datastore.numberReadAveraged.average", "*"),
                                       Key("datastore.numberWriteAveraged.average", "*")>>
      [] counter = "datastore.latency" -> <<Key("datastore.totalReadLatency.average", "*"),
                                            Key("datastore.totalWriteLatency.average", "*")>>
      [] counter = "network.usage" -> <<Key("net.received.average", ""),
                                        Key("net.transmitted.average", "")>>

\* perf_dict[counter_name]: Some(id), or None when the missing key raises
\* KeyError
stat_lookup(dict, counter_name) ==
    IF counter_name \in DOMAIN dict THEN Some(dict[counter_name]) ELSE None

\* the percentage passed on as an absolute bound
PctOfMemory_absolute(pct, memorySizeMB) == RInt(pct)

\* warning * memorySizeMB / 100
PctOfMemory(pct, memorySizeMB) == RDiv(RMul(RInt(pct), RInt(memorySizeMB)), RInt(100))

\* the part of each counter function after its build_query calls; sd is the
\* sequence of values those calls returned
\* vm_cpu_ready reporting the fraction of the interval, not the percentage
vm_cpu_ready_fraction(sd, warning, critical) ==
    print_output_float(RDiv(RInt(sd[1]), RInt(20000)), "CPU Ready",
                       RInt(warning), RInt(critical), "%", RInt(0), RInt(100))

vm_cpu_ready(sd, warning, critical) ==
    print_output_float(RMul(RDiv(RInt(sd[1]), RInt(20000)), RInt(100)), "CPU Ready",
                       RInt(warning), RInt(critical), "%", RInt(0), RInt(100))

\* vm_cpu_usage reporting the raw sum
vm_cpu_usage_raw(sd, warning, critical) ==
    print_output_float(RInt(sd[1]), "CPU Usage",
                       RInt(warning), RInt(critical), "%", RInt(0), RInt(100))

vm_cpu_usage(sd, warning, critical) ==
    print_output_float(RDiv(RInt(sd[1]), RInt(100)), "CPU Usage",
                       RInt(warning), RInt(critical), "%", RInt(0), RInt(100))

vm_mem_active(sd, warning, critical, memorySizeMB) ==
    print_output_float(RDiv(RInt(sd[1]), RInt(1024)), "Memory Active",
                       PctOfMemory(warning, memorySizeMB), PctOfMemory(critical, memorySizeMB),
                       "MB", RInt(0), RInt(memorySizeMB))

vm_mem_shared(sd, warning, critical, memorySizeMB) ==
    print_output_float(RDiv(RInt(sd[1]), RInt(1024)), "Memory Shared",
                       PctOfMemory(warning, memorySizeMB), PctOfMemory(critical, memorySizeMB),
                       "MB", RInt(0), RInt(memorySizeMB))

vm_mem_balloon(sd, warning, critical, memorySizeMB) ==
    print_output_float(RDiv(RInt(sd[1]), RInt(1024)), "Memory Balloon",
                       PctOfMemory(warning, memorySizeMB), PctOfMemory(critical, memorySizeMB),
                       "MB", RInt(0), RInt(memorySizeMB))

vm_ds_io(sd, warning, critical) ==
    print_output_float(RInt(sd[1] + sd[2]), "Datastore IOPS",
                       RInt(warning), RInt(critical), "IOPS", RInt(0), RInt(5000))

vm_ds_latency(sd, warning, critical) ==
    print_output_float(RInt(sd[1] + sd[2]), "Datastore Latency",
                       RInt(warning), RInt(critical), "ms", RInt(0), RInt(100))

\* vm_net_usage reporting the received traffic only
vm_net_usage_received(sd, warning, critical) ==
    print_output_float(RDiv(RMul(RInt(sd[1]), RInt(8)), RInt(1024)), "Network Usage",
                       RInt(warning), RInt(critical), "Mbps", RInt(0), RInt(1000))

vm_net_usage(sd, warning, critical) ==
    print_output_float(RDiv(RMul(RInt(sd[1] + sd[2]), RInt(8)), RInt(1024)), "Network Usage",
                       RInt(warning), RInt(critical), "Mbps", RInt(0), RInt(1000))

\* the counter function main's elif chain (514-529) selects
vm_counter(counter, sd, warning, critical, memorySizeMB) ==
    CASE counter = "cpu.ready" -> vm_cpu_ready(sd, warning, critical)
      [] counter = "cpu.usage" -> vm_cpu_usage(sd, warning, critical)
      [] counter = "mem.active" -> vm_mem_active(sd, warning, critical, memorySizeMB)
      [] counter = "mem.shared" -> vm_mem_shared(sd, warning, critical, memorySizeMB)
      [] counter = "mem.balloon" -> vm_mem_balloon(sd, warning, critical, memorySizeMB)
      [] counter = "datastore.io" -> vm_ds_io(sd, warning, critical)
      [] counter = "datastore.latency" -> vm_ds_latency(sd, warning, critical)
      [] counter = "network.usage" -> vm_net_usage(sd, warning, critical)

\* the query with the window taken from the clock of the provider at the
\* time of the query
QuerySpec_currentTime(T, metricId, vm_moref) ==
    [intervalId |-> 20, entity |-> vm_moref, metricId |-> <<metricId>>,
     startTime |-> vcclock - 60, endTime |-> vcclock - 40]

\* build_query 56-60: the query for one counter of the VM, over the window
\* from 60 to 40 seconds before the time T (vchtime), times being in seconds
QuerySpec(T, metricId, vm_moref) ==
    [intervalId |-> 20, entity |-> vm_moref, metricId |-> <<metricId>>,
     startTime |-> T - 60, endTime |-> T - 40]

\* build_query without the emptiness test: sum of no samples is 0
build_query_zero(perfResults) ==
    [k |-> "value",
     statdata |-> IF perfResults = <<>> THEN 0 ELSE SumSeq(perfResults[1][1]),
     out |-> ReturnWith]

\* build_query after QueryPerf has answered perfResults: the summed samples
\* of perfResults[0].value[0], or the WARNING exit on an empty answer
build_query(perfResults) ==
    IF perfResults # <<>>
    THEN [k |-> "value", statdata |-> SumSeq(perfResults[1][1]), out |-> ReturnWith]
    ELSE [k |-> "exit", statdata |-> 0,
          out |-> ExitWith(Line("error", "", "ERROR: Performance results empty", RInt(0), "",
                                <<>>), STATE_WARNING)]

(* ---------------------------------------------------------------------- *)
(* Steps of pyvinga.py main                                                *)
(* ---------------------------------------------------------------------- *)
\* the step ends as the outcome o says
Apply(o) ==
    /\ stdout' = IF o.line.kind = "none" THEN stdout ELSE Append(stdout, o.line)
    /\ how' = CASE o.k = "exit" -> "SystemExit"
                [] o.k = "return" -> "return"
                [] o.k = "query" -> "running"
    /\ val' = o.code
    /\ pc' = IF o.k = "query" THEN "query" ELSE "exit"
    /\ pending' = o.keys

\* main 466-476: float(args.warning), float(args.critical) unless the counter
\* is core or status; float(None) raises TypeError
ParseArgs ==
    /\ prog = "check" /\ pc = "args"
    /\ IF args.counter # "core" /\ args.counter # "status"
          /\ (args.warning = None \/ args.critical = None)
       THEN Apply(FaultWith("Caught exception : float() argument"))
       ELSE /\ pc' = "connect"
            /\ UNCHANGED <<stdout, how, val, pending>>
    /\ UNCHANGED <<prog, args, si, atexit, exitCode, inventory, fetched, moref, perf_dict,
                   statdata, queries,
                   lastPerf, disconnects, catalogVars, setupVars, pageVars, timeVars, raceVars>>

NotConnected ==
    [k |-> "return", line |-> Line("noconnect", "", "Could not connect to the specified host",
                                   RInt(0), "", <<>>), code |-> -1, keys |-> <<>>]

\* main 483-497: SmartConnect answers with a session, raises IOError (si stays
\* None), or raises a fault such as an invalid login
Connect ==
    /\ prog = "check" /\ pc = "connect"
    /\ \E answer \in {"session", "IOError", "MethodFault"} :
          CASE answer = "session" ->
                 /\ si' = "open" /\ atexit' = TRUE /\ pc' = "session"
                 /\ vchtime' = Some(vcclock)
                 /\ vcclock' = vcclock + 1
                 /\ UNCHANGED <<stdout, how, val, pending>>
            [] answer = "IOError" ->
                 /\ Apply(NotConnected) /\ UNCHANGED <<si, atexit, timeVars, raceVars>>
            [] answer = "MethodFault" ->
                 /\ Apply(FaultWith("Caught vmodl fault")) /\ UNCHANGED <<si, atexit, timeVars, raceVars>>
    /\ UNCHANGED <<prog, args, exitCode, inventory, fetched, moref, perf_dict, statdata, queries,
                   lastPerf, disconnects, catalogVars, setupVars, pageVars, raceVars>>

\* create_perf_dictionary (422-433) called today against a provider of kind
\* about that would answer perfList: the file it uses, that file before and
\* after, whether the provider was asked, and the map returned (None where
\* reading the file raises)
CatalogCall(about, perfList) ==
    LET f == file_perf_dic(about)
        r == write_perf_dictionary(cacheFiles[f], now, perfList)
    IN [file |-> f, at |-> now, before |-> cacheFiles[f], queried |-> r.queried,
        after |-> r.file, result |-> r.perf_dict]

\* the effect of that call on the file system
RecordCall(c) ==
    /\ cacheFiles' = [cacheFiles EXCEPT ![c.file] = c.after]
    /\ call' = Some(c)
    /\ written' = IF c.queried THEN [written EXCEPT ![c.file] = c.result] ELSE written

\* main 498-502: RetrieveContent, CurrentTime, create_perf_dictionary; the
\* provider of the main specification is a vCenter
CreatePerfDictionary ==
    /\ prog = "check" /\ pc = "session"
    /\ \E perfList \in ProviderLists :
          \E c \in {CatalogCall("VMware vCenter Server", perfList)} :
             /\ RecordCall(c)
             /\ IF c.result = None
                THEN Apply(FaultWith("Caught exception")) /\ UNCHANGED perf_dict
                ELSE /\ perf_dict' = c.result[1]
                     /\ pc' = "dispatch"
                     /\ UNCHANGED <<stdout, how, val, pending>>
    /\ UNCHANGED <<prog, args, si, atexit, exitCode, inventory, fetched, moref,
                   statdata, queries, lastPerf, disconnects, now, setupVars, pageVars, timeVars, raceVars>>

\* a provider call made after the session is open raises a MethodFault
ProviderFault ==
    /\ prog = "check" /\ pc \in {"session", "dispatch", "query"}
    /\ pc = "dispatch" => args.type \in {"vm", "host", "datastore", "cluster"}
    /\ Apply(FaultWith("Caught vmodl fault"))
    /\ UNCHANGED <<prog, args, si, atexit, exitCode, inventory, fetched, moref, perf_dict,
                   statdata, queries,
                   lastPerf, disconnects, catalogVars, setupVars, pageVars, timeVars, raceVars>>

\* index of the first record of list whose name is entity, 0 when there is none
FirstMatch(list, entity) ==
    IF \E i \in DOMAIN list : list[i].name = entity
    THEN CHOOSE i \in DOMAIN list :
            /\ list[i].name = entity
            /\ \A j \in DOMAIN list : list[j].name = entity => i <= j
    ELSE 0

NoSupportedCounter ==
    ExitWith(Line("error", "", "ERROR: No supported counter found", RInt(0), "", <<>>),
             STATE_UNKNOWN)

PoweredOff ==
    ExitWith(Line("error", "", "ERROR: Virtual Machine is powered off", RInt(0), "", <<>>),
             STATE_UNKNOWN)

\* the stat_lookup calls that open a counter function
LookupKeys(counter, dict) ==
    LET ks == vm_counter_keys(counter)
        ids == [i \in DOMAIN ks |-> stat_lookup(dict, ks[i].name)]
    IN IF \E i \in DOMAIN ks : ids[i] = None
       THEN FaultWith("Caught exception : KeyError")
       ELSE QueryWith([i \in DOMAIN ks |-> [counterId |-> ids[i][1], instance |-> ks[i].instance]])

\* main 508-541: the body of the loop for the record whose name matches
VmBranch(powerState, counter, overallStatus, dict) ==
    IF powerState = "poweredOn"
    THEN CASE counter = "core" -> vm_core
           [] counter = "status" -> vm_status(overallStatus)
           [] counter \in VmPerfCounters -> LookupKeys(counter, dict)
           [] OTHER -> NoSupportedCounter
    ELSE CASE counter = "core" -> vm_core
           [] counter = "status" -> vm_status(overallStatus)
           [] OTHER -> PoweredOff

\* main 504-541
DispatchVm ==
    /\ prog = "check" /\ pc = "dispatch" /\ args.type = "vm"
    /\ \E st \in StatusValues :
          LET list == inventory
              i == FirstMatch(list, args.entity)
              m == IF i = 0 THEN NoMoref
                   ELSE [name |-> list[i].name, powerState |-> list[i].powerState,
                         memorySizeMB |-> 0]
              o == IF i = 0 THEN ReturnWith
                   ELSE VmBranch(m.powerState, args.counter, st, perf_dict)
          IN /\ fetched' = TRUE /\ moref' = m /\ Apply(o)
    /\ UNCHANGED <<prog, args, si, atexit, exitCode, inventory, perf_dict, statdata, queries,
                   lastPerf, disconnects, catalogVars, setupVars, pageVars, timeVars, raceVars>>

\* main 546-556: the body of the loop for the host whose name matches
HostBranch(counter, cpu, mhz, cores, mem, size, warning, critical) ==
    CASE counter = "core" -> host_core
      [] counter = "cpu.usage" -> host_cpu_usage(cpu, mhz, cores, warning[1], critical[1])
      [] counter = "mem.usage" -> host_mem_usage(mem, size, warning[1], critical[1])
      [] OTHER -> NoSupportedCounter

\* main 543-556
DispatchHost ==
    /\ prog = "check" /\ pc = "dispatch" /\ args.type = "host"
    /\ \E cpu \in HostCpuUsages, mhz \in HostCpuMhz, cores \in HostCpuCores,
          mem \in HostMemUsages, size \in HostMemorySizes :
          LET list == inventory
              i == FirstMatch(list, args.entity)
              m == IF i = 0 THEN NoMoref
                   ELSE [name |-> list[i].name, powerState |-> list[i].powerState,
                         memorySizeMB |-> 0]
              o == IF i = 0 THEN ReturnWith
                   ELSE HostBranch(args.counter, cpu, mhz, cores, mem, size,
                                   args.warning, args.critical)
          IN /\ fetched' = TRUE /\ moref' = m /\ Apply(o)
    /\ UNCHANGED <<prog, args, si, atexit, exitCode, inventory, perf_dict, statdata, queries,
                   lastPerf, disconnects, catalogVars, setupVars, pageVars, timeVars, raceVars>>

\* main 561-569: the body of the loop for the datastore whose name matches
DatastoreBranch(counter, overallStatus, capacity, freeSpace, warning, critical) ==
    CASE counter = "status" -> ds_status(overallStatus)
      [] counter = "space" -> ds_space(capacity, freeSpace, warning[1], critical[1])
      [] OTHER -> NoSupportedCounter

\* main 558-569
DispatchDatastore ==
    /\ prog = "check" /\ pc = "dispatch" /\ args.type = "datastore"
    /\ \E st \in StatusValues, cap \in DsCapacities, free \in DsFreeSpaces :
          LET list == inventory
              i == FirstMatch(list, args.entity)
              m == IF i = 0 THEN NoMoref
                   ELSE [name |-> list[i].name, powerState |-> list[i].powerState,
                         memorySizeMB |-> 0]
              o == IF i = 0 THEN ReturnWith
                   ELSE DatastoreBranch(args.counter, st, cap, free, args.warning, args.critical)
          IN /\ fetched' = TRUE /\ moref' = m /\ Apply(o)
    /\ UNCHANGED <<prog, args, si, atexit, exitCode, inventory, perf_dict, statdata, queries,
                   lastPerf, disconnects, catalogVars, setupVars, pageVars, timeVars, raceVars>>

\* main 574-580: the body of the loop for the cluster whose name matches
ClusterBranch(counter, overallStatus) ==
    CASE counter = "status" -> cl_status(overallStatus)
      [] OTHER -> NoSupportedCounter

\* main 571-580
DispatchCluster ==
    /\ prog = "check" /\ pc = "dispatch" /\ args.type = "cluster"
    /\ \E st \in StatusValues :
          LET list == inventory
              i == FirstMatch(list, args.entity)
              m == IF i = 0 THEN NoMoref
                   ELSE [name |-> list[i].name, powerState |-> list[i].powerState,
                         memorySizeMB |-> 0]
              o == IF i = 0 THEN ReturnWith ELSE ClusterBranch(args.counter, st)
          IN /\ fetched' = TRUE /\ moref' = m /\ Apply(o)
    /\ UNCHANGED <<prog, args, si, atexit, exitCode, inventory, perf_dict, statdata, queries,
                   lastPerf, disconnects, catalogVars, setupVars, pageVars, timeVars, raceVars>>

NoSupportedEntityType ==
    [k |-> "return", line |-> Line("error", "", "ERROR: No supported Entity type provided",
                                   RInt(0), "", <<>>), code |-> 0, keys |-> <<>>]

\* main 582-583, 592
DispatchOther ==
    /\ prog = "check" /\ pc = "dispatch"
    /\ args.type \notin {"vm", "host", "datastore", "cluster"}
    /\ Apply(NoSupportedEntityType)
    /\ UNCHANGED <<prog, args, si, atexit, exitCode, inventory, fetched, moref, perf_dict,
                   statdata, queries,
                   lastPerf, disconnects, catalogVars, setupVars, pageVars, timeVars, raceVars>>

\* one build_query call of the running counter function (48-70) and, after
\* the last one, the rest of that function
Query ==
    /\ prog = "check" /\ pc = "query" /\ pending # <<>>
    /\ \E perfResults \in PerfResults, mem \in MemorySizes :
          LET r == build_query(perfResults)
              sd == Append(statdata, r.statdata)
          IN /\ queries' = Append(queries, QuerySpec(vchtime[1], Head(pending), moref.name))
             /\ vcclock' = vcclock + 1
             /\ lastPerf' = Some(perfResults)
             /\ IF r.k # "value"
                THEN Apply(r.out) /\ UNCHANGED <<statdata, moref>>
                ELSE /\ statdata' = sd
                     /\ IF Len(pending) > 1
                        THEN /\ pending' = Tail(pending)
                             /\ UNCHANGED <<stdout, how, val, pc, moref>>
                        ELSE \* vm_moref.summary.config.memorySizeMB is read by
                             \* the memory checks only
                             /\ moref' = IF args.counter \in MemCounters
                                         THEN [moref EXCEPT !.memorySizeMB = mem]
                                         ELSE moref
                             /\ Apply(vm_counter(args.counter, sd, args.warning[1],
                                                 args.critical[1], mem))
    /\ UNCHANGED <<prog, args, si, atexit, exitCode, inventory, fetched, perf_dict,
                   disconnects, catalogVars, setupVars, pageVars, vchtime, raceVars>>

(* ---------------------------------------------------------------------- *)
(* Steps of vi_setup.py main                                               *)
(* ---------------------------------------------------------------------- *)
\* vi_setup main 541-552
SetupConnect ==
    /\ prog = "setup" /\ pc = "connect"
    /\ \E answer \in {"session", "IOError", "MethodFault"} :
          CASE answer = "session" ->
                 /\ si' = "open" /\ atexit' = TRUE /\ pc' = "run"
                 /\ UNCHANGED <<stdout, how, val, pending>>
            [] answer = "IOError" ->
                 /\ Apply(NotConnected) /\ UNCHANGED <<si, atexit>>
            [] answer = "MethodFault" ->
                 /\ Apply(FaultWith("Caught vmodl fault")) /\ UNCHANGED <<si, atexit>>
    /\ UNCHANGED <<prog, args, exitCode, inventory, fetched, moref, perf_dict, statdata, queries,
                   lastPerf, disconnects, catalogVars, setupVars, pageVars, timeVars, raceVars>>

\* the line main prints once it knows what it is connected to (556, 561)
Detected(about) ==
    Line("info", "", IF about = "VMware vCenter Server" THEN "vCenter Instance detected"
                     ELSE "ESXi Host detected", RInt(0), "", <<>>)

\* the step prints line and then ends as the outcome o says
ApplyAfter(line, o) ==
    /\ stdout' = IF o.line.kind = "none" THEN Append(stdout, line)
                 ELSE Append(Append(stdout, line), o.line)
    /\ how' = "return"
    /\ val' = o.code
    /\ pc' = "exit"
    /\ pending' = o.keys

\* vi_setup main 555-563 once the hierarchy h and the datastore table ds are
\* there: the command file and the object files are written for the kind of
\* provider about names; opening a file for writing may raise IOError, and
\* create_esxi_config raises where it reads a key that is not there
WriteConfig(about, h, ds) ==
    \/ /\ ApplyAfter(Detected(about), FaultWith("Caught exception"))
       /\ UNCHANGED config
    \/ /\ about = "VMware vCenter Server"
       /\ \E dcs \in SetOrders(h.dc_list) :
             \E cfg \in {create_vcenter_config(create_commands(config), h, dcs, ds)} :
                /\ config' = cfg
                /\ ApplyAfter(Detected(about), ReturnWith)
    \/ /\ about = "VMware ESXi"
       /\ \E x \in {create_esxi_config(create_commands(config), <<args.entity>>, h.vm_props, ds)} :
             /\ config' = x.cfg
             /\ ApplyAfter(Detected(about),
                           IF x.raised THEN FaultWith("Caught exception") ELSE ReturnWith)

\* vi_setup main 553-575: get_hierarchy fetches the VM and host records and
\* resolves them, then the datastores are read and the configuration is
\* written; a fault of the provider or an exception is caught
SetupRun ==
    /\ prog = "setup" /\ pc = "run"
    /\ \/ /\ Apply(FaultWith("Caught vmodl fault"))
          /\ UNCHANGED <<fetched, setupVars>>
       \/ \E hosts \in {[i \in DOMAIN inventory.hosts |-> ClassifyHost(inventory.hosts[i])]} :
             /\ fetched' = TRUE
             /\ vm_props' = inventory.vms
             /\ host_props' = hosts
             /\ \E r \in {get_hierarchy(inventory.vms, hosts)} :
                   /\ hierarchy' = r
                   /\ \/ /\ r = None
                         /\ Apply(FaultWith("Caught exception"))
                         /\ UNCHANGED <<ds_table, config>>
                      \/ /\ r # None
                         /\ Apply(FaultWith("Caught vmodl fault"))
                         /\ UNCHANGED <<ds_table, config>>
                      \/ /\ r # None
                         /\ \E dc_props \in DatacenterPropLists, about \in AboutNames :
                               \E ds \in {get_datastore_hierarchy(dc_props)} :
                                  /\ ds_table' = ds
                                  /\ WriteConfig(about, r[1], ds)
    /\ UNCHANGED <<prog, args, si, atexit, exitCode, inventory, moref, perf_dict,
                   statdata, queries, lastPerf, disconnects, catalogVars, pageVars, timeVars, raceVars>>

(* ---------------------------------------------------------------------- *)
(* End of the process (both programs)                                      *)
(* ---------------------------------------------------------------------- *)
\* AtExit without the registered callback: the process ends and the session
\* stays as it was
AtExit_noCallback ==
    /\ pc = "exit"
    /\ exitCode' = IF how = "SystemExit" THEN Some(val) ELSE Some(0)
    /\ pc' = "done"
    /\ UNCHANGED <<prog, args, si, atexit, stdout, how, val, inventory, fetched, moref,
                   perf_dict, pending, statdata, queries, lastPerf, disconnects, catalogVars, setupVars, pageVars, timeVars, raceVars>>

\* the module's last line calls main() and drops what it returns, so the
\* interpreter ends with the SystemExit code if exit() was called and with 0
\* otherwise; the atexit callback then disconnects the session
AtExit ==
    /\ pc = "exit"
    /\ exitCode' = IF how = "SystemExit" THEN Some(val) ELSE Some(0)
    /\ si' = IF atexit /\ si = "open" THEN "closed" ELSE si
    /\ disconnects' = IF atexit THEN disconnects + 1 ELSE disconnects
    /\ pc' = "done"
    /\ UNCHANGED <<prog, args, atexit, stdout, how, val, inventory, fetched, moref, perf_dict,
                   pending, statdata, queries, lastPerf,
                   catalogVars, setupVars, pageVars, timeVars, raceVars>>

Next ==
    \/ ParseArgs
    \/ Connect
    \/ CreatePerfDictionary
    \/ ProviderFault
    \/ DispatchVm
    \/ DispatchHost
    \/ DispatchDatastore
    \/ DispatchCluster
    \/ DispatchOther
    \/ Query
    \/ SetupConnect
    \/ SetupRun
    \/ AtExit

Spec == Init /\ [][Next]_vars

\* the invocations whose termination is checked: those of Init in which the
\* provider lists at most one object of each kind asked for and the two
\* thresholds are given together or not at all
InitFair ==
    /\ Init
    /\ prog = "check" => Len(inventory) <= 1
    /\ prog = "setup" => Len(inventory.hosts) <= 1 /\ Len(inventory.vms) <= 1
    /\ (args.warning = None) <=> (args.critical = None)

\* the interpreter runs main to its end and then its atexit callbacks: no step
\* of the invocation is postponed for ever once the provider has answered
FairSpec == InitFair /\ [][Next]_vars /\ WF_vars(Next)

\* the emission specification: the set-up program against a provider whose
\* hosts include two stand-alone hosts of one datacenter and hosts of two
\* clusters of one datacenter, the configuration files being empty at first
InitSetup ==
    /\ prog = "setup"
    /\ args = [type |-> "other", entity |-> "web01", counter |-> "core",
               warning |-> None, critical |-> None]
    /\ pc = "connect"
    /\ si = "none"
    /\ atexit = FALSE
    /\ stdout = <<>>
    /\ how = "running"
    /\ val = 0
    /\ exitCode = None
    /\ inventory \in [hosts : EmitHostPropLists, vms : EmitVmPropLists]
    /\ fetched = FALSE
    /\ moref = NoMoref
    /\ perf_dict = <<>>
    /\ pending = <<>>
    /\ statdata = <<>>
    /\ queries = <<>>
    /\ lastPerf = None
    /\ disconnects = 0
    /\ cacheFiles = [f \in CacheFileNames |-> None]
    /\ now = 0
    /\ call = None
    /\ written = [f \in CacheFileNames |-> None]
    /\ host_props = <<>>
    /\ vm_props = <<>>
    /\ hierarchy = None
    /\ ds_table = <<>>
    /\ config = EmptyConfig
    /\ PagesIdle
    /\ ClockIdle
    /\ RaceIdle

NextSetup ==
    \/ SetupConnect
    \/ SetupRun
    \/ AtExit

SpecSetup == InitSetup /\ [][NextSetup]_vars

\* the retrieval specification: one call of get_properties against a provider
\* that serves its result in pages
InitPages ==
    /\ prog = "check"
    /\ args = [type |-> "vm", entity |-> "web01", counter |-> "core",
               warning |-> None, critical |-> None]
    /\ pc = "retrieve"
    /\ si = "open"
    /\ atexit = TRUE
    /\ stdout = <<>>
    /\ how = "running"
    /\ val = 0
    /\ exitCode = None
    /\ inventory = <<>>
    /\ fetched = FALSE
    /\ moref = NoMoref
    /\ perf_dict = <<>>
    /\ pending = <<>>
    /\ statdata = <<>>
    /\ queries = <<>>
    /\ lastPerf = None
    /\ disconnects = 0
    /\ cacheFiles = [f \in CacheFileNames |-> None]
    /\ now = 0
    /\ call = None
    /\ written = [f \in CacheFileNames |-> None]
    /\ host_props = <<>>
    /\ vm_props = <<>>
    /\ hierarchy = None
    /\ ds_table = <<>>
    /\ config = EmptyConfig
    /\ pages \in PageLists
    /\ retProps = None
    /\ totalProps = <<>>
    /\ continues = 0
    /\ gpOutput = <<>>
    /\ ClockIdle
    /\ RaceIdle

\* 350-351: RetrievePropertiesEx, and the objects of its response collected
RetrieveProperties ==
    /\ pc = "retrieve"
    /\ retProps' = Some(RetrieveResult(pages, 1))
    /\ totalProps' = totalProps \o pages[1].objects
    /\ pc' = "while"
    /\ UNCHANGED <<prog, args, si, atexit, stdout, how, val, exitCode, inventory, fetched, moref,
                   perf_dict, pending, statdata, queries, lastPerf, disconnects, catalogVars,
                   setupVars, timeVars, raceVars, pages, continues, gpOutput>>

\* the loop body with the objects of the new response taking the place of
\* those collected before
ContinueRetrieveProperties_replacing ==
    /\ pc = "while"
    /\ retProps[1].token # None
    /\ retProps' = Some(RetrieveResult(pages, retProps[1].token[1]))
    /\ totalProps' = pages[retProps[1].token[1]].objects
    /\ continues' = continues + 1
    /\ UNCHANGED <<prog, args, pc, si, atexit, stdout, how, val, exitCode, inventory, fetched,
                   moref, perf_dict, pending, statdata, queries, lastPerf, disconnects,
                   catalogVars, setupVars, timeVars, raceVars, pages, gpOutput>>

\* 352-354: while the latest response carries a token,
\* ContinueRetrievePropertiesEx with it, and the objects of the response
\* collected
ContinueRetrieveProperties ==
    /\ pc = "while"
    /\ retProps[1].token # None
    /\ retProps' = Some(RetrieveResult(pages, retProps[1].token[1]))
    /\ totalProps' = totalProps \o pages[retProps[1].token[1]].objects
    /\ continues' = continues + 1
    /\ UNCHANGED <<prog, args, pc, si, atexit, stdout, how, val, exitCode, inventory, fetched,
                   moref, perf_dict, pending, statdata, queries, lastPerf, disconnects,
                   catalogVars, setupVars, timeVars, raceVars, pages, gpOutput>>

\* 352, 355-364: the latest response carries no token; the view is destroyed
\* and one dictionary per object collected is returned
ReturnProperties ==
    /\ pc = "while"
    /\ retProps[1].token = None
    /\ gpOutput' = [i \in DOMAIN totalProps |-> PropDic(totalProps[i])]
    /\ pc' = "returned"
    /\ UNCHANGED <<prog, args, si, atexit, stdout, how, val, exitCode, inventory, fetched, moref,
                   perf_dict, pending, statdata, queries, lastPerf, disconnects, catalogVars,
                   setupVars, timeVars, raceVars, pages, retProps, totalProps, continues>>

NextPages ==
    \/ RetrieveProperties
    \/ ContinueRetrieveProperties
    \/ ReturnProperties

SpecPages == InitPages /\ [][NextPages]_vars

(* ---------------------------------------------------------------------- *)
(* The catalog specification: check invocations, one after the other,     *)
(* against providers of either kind, while days pass                       *)
(* ---------------------------------------------------------------------- *)
InitCatalog ==
    /\ prog = "check"
    /\ args = [type |-> "vm", entity |-> "web01", counter |-> "cpu.usage",
               warning |-> Some(50), critical |-> Some(90)]
    /\ pc = "session"
    /\ si = "open"
    /\ atexit = TRUE
    /\ stdout = <<>>
    /\ how = "running"
    /\ val = 0
    /\ exitCode = None
    /\ inventory = <<>>
    /\ fetched = FALSE
    /\ moref = NoMoref
    /\ perf_dict = <<>>
    /\ pending = <<>>
    /\ statdata = <<>>
    /\ queries = <<>>
    /\ lastPerf = None
    /\ disconnects = 0
    /\ cacheFiles = [f \in CacheFileNames |-> None]
    /\ now = 0
    /\ call = None
    /\ written = [f \in CacheFileNames |-> None]
    /\ host_props = <<>>
    /\ vm_props = <<>>
    /\ hierarchy = None
    /\ ds_table = <<>>
    /\ config = EmptyConfig
    /\ PagesIdle
    /\ ClockIdle
    /\ RaceIdle

\* an invocation gets as far as line 502 and calls create_perf_dictionary
CatalogInvocation ==
    /\ \E about \in AboutNames, perfList \in CatalogLists :
          \E c \in {CatalogCall(about, perfList)} :
             /\ RecordCall(c)
             /\ perf_dict' = IF c.result = None THEN perf_dict ELSE c.result[1]
    /\ UNCHANGED <<prog, args, pc, si, atexit, stdout, how, val, exitCode, inventory, fetched,
                   moref, pending, statdata, queries, lastPerf, disconnects, now, setupVars, pageVars, timeVars, raceVars>>

\* a day passes between invocations
DayPasses ==
    /\ now < MaxTime
    /\ now' = now + 1
    /\ UNCHANGED <<prog, args, pc, si, atexit, stdout, how, val, exitCode, inventory, fetched,
                   moref, perf_dict, pending, statdata, queries, lastPerf, disconnects,
                   cacheFiles, call, written, setupVars, pageVars, timeVars, raceVars>>

NextCatalog ==
    \/ CatalogInvocation
    \/ DayPasses

SpecCatalog == InitCatalog /\ [][NextCatalog]_vars

(* ---------------------------------------------------------------------- *)
(* The race specification: two check invocations inside                    *)
(* write_perf_dictionary (pyvinga.py 436-462) at the same time, against    *)
(* one vCenter                                                             *)
(* ---------------------------------------------------------------------- *)
Invocations == {1, 2}

\* the file the invocations use
RaceFile == file_perf_dic("VMware vCenter Server")

\* the place of a line that has not been written while a later one has: NUL
\* bytes without a line end
Hole == <<"\\0">>

\* the file after lines have been written from the line position from on:
\* positions between the end of the file and from become holes
FlushAt(cells, from, lines) ==
    IF lines = <<>> THEN cells
    ELSE [i \in 1..(IF Len(cells) > from + Len(lines) THEN Len(cells) ELSE from + Len(lines)) |->
             IF i > from /\ i <= from + Len(lines) THEN lines[i - from]
             ELSE IF i <= Len(cells) THEN cells[i]
             ELSE Hole]

\* 456: the lines 'for line in f' yields: a hole has no line end, so it is
\* the start of the line that follows it
RECURSIVE ReadLines(_, _)
ReadLines(cells, start) ==
    IF cells = <<>> THEN (IF start = <<>> THEN <<>> ELSE <<start>>)
    ELSE IF Head(cells) = Hole THEN ReadLines(Tail(cells), start \o Hole)
    ELSE <<start \o Head(cells)>> \o ReadLines(Tail(cells), <<>>)

\* an invocation that has not reached the test of line 446
Invocation ==
    [pc |-> "test", wrote |-> 0, flushed |-> 0, perf_dict |-> None, racing |-> FALSE]

InitRace ==
    /\ prog = "check"
    /\ args = [type |-> "vm", entity |-> "web01", counter |-> "cpu.usage",
               warning |-> Some(50), critical |-> Some(90)]
    /\ pc = "session"
    /\ si = "open"
    /\ atexit = TRUE
    /\ stdout = <<>>
    /\ how = "running"
    /\ val = 0
    /\ exitCode = None
    /\ inventory = <<>>
    /\ fetched = FALSE
    /\ moref = NoMoref
    /\ perf_dict = <<>>
    /\ pending = <<>>
    /\ statdata = <<>>
    /\ queries = <<>>
    /\ lastPerf = None
    /\ disconnects = 0
    /\ cacheFiles = [f \in CacheFileNames |-> None]
    /\ now = 0
    /\ call = None
    /\ written = [f \in CacheFileNames |-> None]
    /\ host_props = <<>>
    /\ vm_props = <<>>
    /\ hierarchy = None
    /\ ds_table = <<>>
    /\ config = EmptyConfig
    /\ PagesIdle
    /\ ClockIdle
    /\ perfCounter \in CatalogLists
    /\ procs = [p \in Invocations |-> Invocation]

\* what a step of an invocation leaves alone
RaceUnchanged ==
    UNCHANGED <<prog, args, pc, si, atexit, stdout, how, val, exitCode, inventory, fetched, moref,
                perf_dict, pending, statdata, queries, lastPerf, disconnects, now, call, written,
                setupVars, pageVars, timeVars, perfCounter>>

\* 446: the test whether the file is missing or older than CacheDays days
TestFile ==
    /\ \E p \in Invocations :
          /\ procs[p].pc = "test"
          /\ procs' = [procs EXCEPT ![p].pc =
                          IF cacheFiles[RaceFile] = None
                             \/ cacheFiles[RaceFile][1].mtime < now - CacheDays
                          THEN "open_w" ELSE "open_r"]
    /\ UNCHANGED cacheFiles
    /\ RaceUnchanged

\* 448-450: the counters are asked of the provider and open(mode='w') makes
\* the file empty
OpenWrite ==
    /\ \E p \in Invocations :
          /\ procs[p].pc = "open_w"
          /\ procs' = [procs EXCEPT ![p].pc = "write"]
    /\ cacheFiles' = [cacheFiles EXCEPT ![RaceFile] = CacheFile(now, <<>>)]
    /\ RaceUnchanged

\* 451-453: one pass of the loop: the line of the next counter goes to the
\* buffer of the file object, which may write what it holds to the file
WriteLine ==
    /\ \E p \in Invocations, flush \in BOOLEAN :
          /\ procs[p].pc = "write"
          /\ procs[p].wrote < Len(perfCounter)
          /\ procs' = [procs EXCEPT ![p].wrote = @ + 1,
                                    ![p].flushed = IF flush THEN procs[p].wrote + 1 ELSE @]
          /\ cacheFiles' =
                IF flush
                THEN [cacheFiles EXCEPT ![RaceFile] =
                         CacheFile(now,
                                   FlushAt(cacheFiles[RaceFile][1].lines, procs[p].flushed,
                                           [i \in 1..(procs[p].wrote + 1 - procs[p].flushed) |->
                                               CounterLine(perfCounter[procs[p].flushed + i])]))]
                ELSE cacheFiles
    /\ RaceUnchanged

\* close() that drops what the buffer holds
CloseWrite_noFlush ==
    /\ \E p \in Invocations :
          /\ procs[p].pc = "write"
          /\ procs[p].wrote = Len(perfCounter)
          /\ procs' = [procs EXCEPT ![p].pc = "done",
                                    ![p].perf_dict = Some(DictOfList(perfCounter))]
    /\ UNCHANGED cacheFiles
    /\ RaceUnchanged

\* 454, 460: after the last counter close() writes what the buffer holds, and
\* the map built in the loop is returned
CloseWrite ==
    /\ \E p \in Invocations :
          /\ procs[p].pc = "write"
          /\ procs[p].wrote = Len(perfCounter)
          /\ procs' = [procs EXCEPT ![p].pc = "done",
                                    ![p].flushed = procs[p].wrote,
                                    ![p].perf_dict = Some(DictOfList(perfCounter))]
          /\ cacheFiles' =
                [cacheFiles EXCEPT ![RaceFile] =
                    CacheFile(IF procs[p].wrote > procs[p].flushed THEN now
                              ELSE cacheFiles[RaceFile][1].mtime,
                              FlushAt(cacheFiles[RaceFile][1].lines, procs[p].flushed,
                                      [i \in 1..(procs[p].wrote - procs[p].flushed) |->
                                          CounterLine(perfCounter[procs[p].flushed + i])]))]
    /\ RaceUnchanged

\* 455-460: the file is read as it is and the map of its lines is returned,
\* None standing for the exception a line raises; racing records whether
\* another invocation had the file open for writing
ReadFile ==
    /\ \E p \in Invocations :
          /\ procs[p].pc = "open_r"
          /\ procs' = [procs EXCEPT
                          ![p].pc = "done",
                          ![p].perf_dict = DictOfLines(ReadLines(cacheFiles[RaceFile][1].lines,
                                                                 <<>>)),
                          ![p].racing = \E q \in Invocations \ {p} : procs[q].pc = "write"]
    /\ UNCHANGED cacheFiles
    /\ RaceUnchanged

NextRace ==
    \/ TestFile
    \/ OpenWrite
    \/ WriteLine
    \/ CloseWrite
    \/ ReadFile

SpecRace == InitRace /\ [][NextRace]_vars

TypeOK ==
    /\ pc \in {"args", "connect", "session", "dispatch", "query", "run", "exit", "done",
              "retrieve", "while", "returned"}
    /\ si \in {"none", "open", "closed"}
    /\ how \in {"running", "SystemExit", "return"}
    /\ (exitCode = None) = (pc # "done")
    /\ disconnects \in 0..1

(* ---------------------------------------------------------------------- *)
(* Properties                                                              *)
(* ---------------------------------------------------------------------- *)
LastLine == stdout[Len(stdout)]
Ordinal(label) == CHOOSE n \in 0..3 : state_tuple[n + 1] = label
Kinds == {"vm", "host", "datastore", "cluster"}
\* the record of the requested name that main's loop reaches first, 0 if none
Named == FirstMatch(inventory, args.entity)
\* the connection failed or a provider call raised a fault
ProviderFailed ==
    \E i \in DOMAIN stdout :
        \/ stdout[i].kind = "noconnect"
        \/ stdout[i].kind = "fault" /\ stdout[i].text = "Caught vmodl fault"
FloatClass(v, w, c) == IF RGe(v, c) THEN STATE_CRITICAL
                       ELSE IF RGe(v, w) THEN STATE_WARNING ELSE STATE_OK

\* C1: every numeric check that has printed its line is CRITICAL when
\* value >= critical, else WARNING when value >= warning, else OK (both
\* boundaries inclusive, critical first, also when warning > critical), as
\* label and as exit status.
C1_AbsoluteClassification ==
    \A i \in DOMAIN stdout :
        stdout[i].kind = "float" =>
            LET v == stdout[i].value
                w == stdout[i].perf[1]
                c == stdout[i].perf[2]
            IN /\ RGe(v, c) => stdout[i].label = "CRITICAL" /\ val = 2
               /\ (RLt(v, c) /\ RGe(v, w)) => stdout[i].label = "WARNING" /\ val = 1
               /\ (RLt(v, c) /\ RLt(v, w)) => stdout[i].label = "OK" /\ val = 0
               /\ how = "SystemExit"
               /\ pc = "done" => exitCode = Some(val)

\* a numeric check whose value equals critical while warning > critical ended
\* CRITICAL
C1_Witness ==
    /\ pc = "done" /\ exitCode = Some(2)
    /\ \E i \in DOMAIN stdout :
          /\ stdout[i].kind = "float" /\ stdout[i].label = "CRITICAL"
          /\ REq(stdout[i].value, stdout[i].perf[2])
          /\ RLt(stdout[i].value, stdout[i].perf[1])

\* C2: when the check program has ended after printing a line with a
\* severity label, an informational line or an error classification, the
\* exit code is the ordinal of that severity (OK=0, WARNING=1, CRITICAL=2,
\* UNKNOWN=3).
C2_ExitCodeMatchesLabel ==
    (prog = "check" /\ pc = "done" /\ stdout # <<>>) =>
        /\ LastLine.label # "" => exitCode = Some(Ordinal(LastLine.label))
        /\ LastLine.kind = "info" => exitCode = Some(STATE_OK)
        /\ LastLine \in {NoSupportedCounter.line, PoweredOff.line}
              => exitCode = Some(STATE_UNKNOWN)

\* C3: a vm, cluster or datastore status check decides by equality with the
\* sentinels only: red is CRITICAL, yellow WARNING, gray UNKNOWN, anything
\* else OK.
C3_StatusSentinels ==
    (prog = "check" /\ pc = "done" /\ stdout # <<>> /\ LastLine.kind = "string") =>
        LET expected == CASE LastLine.status = "red" -> STATE_CRITICAL
                          [] LastLine.status = "yellow" -> STATE_WARNING
                          [] LastLine.status = "gray" -> STATE_UNKNOWN
                          [] OTHER -> STATE_OK
        IN /\ LastLine.label = state_tuple[expected + 1]
           /\ exitCode = Some(expected)

MemStats == {"Memory Active", "Memory Shared", "Memory Balloon"}

\* C4: for mem.active, mem.shared and mem.balloon the bounds compared and
\* reported are warning * memorySizeMB / 100 and critical * memorySizeMB / 100,
\* the value is the raw sum / 1024, and the two-tier rule is applied to them;
\* with 4096 MB, 80 and 90 the bounds are 3276.8 and 3686.4, and 3000 is OK,
\* 3500 WARNING, 3700 CRITICAL.
C4_PercentOfCapacity ==
    (stdout # <<>> /\ LastLine.kind = "float" /\ LastLine.text \in MemStats) =>
        LET m == moref.memorySizeMB
            w == <<args.warning[1] * m, 100>>
            c == <<args.critical[1] * m, 100>>
            v == <<statdata[1], 1024>>
        IN /\ args.counter \in MemCounters
           /\ REq(LastLine.perf[1], w) /\ REq(LastLine.perf[2], c)
           /\ REq(LastLine.value, v)
           /\ LastLine.label = state_tuple[FloatClass(v, w, c) + 1]
           /\ val = FloatClass(v, w, c)
           /\ (m = 4096 /\ args.warning = Some(80) /\ args.critical = Some(90)) =>
                 /\ REq(LastLine.perf[1], <<32768, 10>>)
                 /\ REq(LastLine.perf[2], <<36864, 10>>)
                 /\ statdata[1] = 3000 * 1024 => LastLine.label = "OK"
                 /\ statdata[1] = 3500 * 1024 => LastLine.label = "WARNING"
                 /\ statdata[1] = 3700 * 1024 => LastLine.label = "CRITICAL"

\* mem.active on a 4096 MB VM with 80/90 and a sample of 3500 MB ended WARNING
C4_Witness ==
    /\ pc = "done" /\ args.counter = "mem.active"
    /\ moref.memorySizeMB = 4096 /\ args.warning = Some(80) /\ args.critical = Some(90)
    /\ statdata = <<3500 * 1024>>
    /\ LastLine.label = "WARNING" /\ exitCode = Some(1)

\* C5: when the named VM is powered off or suspended, core and status are
\* evaluated as usual and every other counter ends with the powered-off
\* message and UNKNOWN (3), no metric query having been issued.
C5_PoweredOffGate ==
    (/\ prog = "check" /\ pc = "done" /\ args.type = "vm"
     /\ Named # 0 /\ ~ProviderFailed
     /\ inventory[Named].powerState \in {"poweredOff", "suspended"}) =>
        /\ queries = <<>>
        /\ stdout # <<>>
        /\ IF args.counter = "core" THEN LastLine = vm_core.line /\ exitCode = Some(STATE_OK)
           ELSE IF args.counter = "status" THEN LastLine.kind = "string"
           ELSE LastLine = PoweredOff.line /\ exitCode = Some(STATE_UNKNOWN)

\* with both thresholds on the command line, a powered-off or suspended VM
\* gets the powered-off message and exit code 3 for every counter other than
\* core and status
PoweredOffGateWithThresholds ==
    (/\ prog = "check" /\ pc = "done" /\ args.type = "vm"
     /\ Named # 0 /\ ~ProviderFailed
     /\ inventory[Named].powerState \in {"poweredOff", "suspended"}
     /\ args.counter \notin {"core", "status"}
     /\ args.warning # None /\ args.critical # None) =>
        /\ queries = <<>>
        /\ LastLine = PoweredOff.line /\ exitCode = Some(STATE_UNKNOWN)

\* C6: for each of the four kinds, when the fetched list has no object with
\* the requested name the invocation ends UNKNOWN, exit code 3.
C6_EntityNotFound ==
    (prog = "check" /\ pc = "done" /\ args.type \in Kinds /\ fetched /\ Named = 0) =>
        exitCode = Some(STATE_UNKNOWN)

Recognised(type) ==
    CASE type = "vm" -> {"core", "status"} \cup VmPerfCounters
      [] type = "host" -> {"core", "cpu.usage", "mem.usage"}
      [] type = "datastore" -> {"status", "space"}
      [] type = "cluster" -> {"status"}

\* C7: for each of the four kinds and every counter name not recognised for
\* the kind, the invocation for an entity the provider lists ends UNKNOWN,
\* exit code 3.
C7_UnsupportedCounter ==
    (/\ prog = "check" /\ pc = "done" /\ args.type \in Kinds /\ ~ProviderFailed
     /\ Named # 0
     /\ args.counter \notin Recognised(args.type)) =>
        exitCode = Some(STATE_UNKNOWN)

\* C8: when a qualified name the check looks up is not in the catalog, the
\* invocation ends with an UNKNOWN classification (exit code 3), not with
\* the generic top-level fault.
C8_UnknownCounter ==
    (/\ prog = "check" /\ pc = "done" /\ args.type = "vm" /\ fetched /\ Named # 0
     /\ inventory[Named].powerState = "poweredOn"
     /\ args.counter \in VmPerfCounters
     /\ \E i \in DOMAIN vm_counter_keys(args.counter) :
           vm_counter_keys(args.counter)[i].name \notin DOMAIN perf_dict) =>
        /\ exitCode = Some(STATE_UNKNOWN)
        /\ LastLine.kind # "fault"

C10_FaultExitCode ==
    pc = "done" =>
        /\ (how = "return" /\ val = -1) => exitCode = Some(-1)
        /\ (prog = "setup" /\ how = "return" /\ val = 0) => exitCode = Some(0)

(* C11: an invocation that has established a provider session disconnects
   it, exactly once, before the process ends, whichever way main ends (a
   classification exit of any severity, an error exit, a caught fault or a
   normal return); an invocation whose connect failed ends with no session
   open and no Disconnect call. The session never outlives the process: an
   open session leads to a closed one. *)
C11_DisconnectOnce ==
    /\ [](disconnects <= 1)
    /\ [](pc = "done" =>
            /\ si \in {"none", "closed"}
            /\ disconnects = (IF si = "closed" THEN 1 ELSE 0))
    /\ (si = "open") ~> (si = "closed" /\ disconnects = 1 /\ pc = "done")

\* a session was opened, main ended by a classification exit with a severity
\* other than OK, and the session is closed when the process has ended
C11_Witness ==
    /\ pc = "done" /\ si = "closed" /\ disconnects = 1
    /\ how = "SystemExit" /\ exitCode = Some(STATE_CRITICAL)

(* C12: the latest call of write_perf_dictionary asked the provider for its
   counter list, and rewrote the cache file, exactly if the file was absent
   or had been modified more than CacheDays days before the call; in every
   other case it asked nothing, left the file as it was and returned the map
   read from the lines of that file. *)
C12_RefreshIffAbsentOrStale ==
    call # None =>
        LET c == call[1]
            absentOrOld == c.before = None \/ c.at - c.before[1].mtime > CacheDays
        IN /\ c.queried <=> absentOrOld
           /\ c.queried => /\ cacheFiles[c.file] # None
                           /\ cacheFiles[c.file][1].mtime = c.at
           /\ ~c.queried => /\ cacheFiles[c.file] = c.before
                            /\ c.result = DictOfLines(c.before[1].lines)
                            /\ c.result # None
                            /\ perf_dict = c.result[1]

\* a file of exactly CacheDays days, with lines in it, was read and not rebuilt
C12_Witness ==
    /\ call # None
    /\ ~call[1].queried
    /\ call[1].at - call[1].before[1].mtime = CacheDays
    /\ call[1].before[1].lines # <<>>

(* C13: when a call reloads a cache file without asking the provider, the
   map it returns is the map that was returned by the call that wrote that
   file: the same qualified names with the same integer ids. *)
C13_CatalogRoundTrip ==
    (call # None /\ ~call[1].queried /\ written[call[1].file] # None) =>
        /\ call[1].result = written[call[1].file]
        /\ perf_dict = written[call[1].file][1]

\* a file written from a list that names one counter twice and has an id of
\* two digits was reloaded
C13_Witness ==
    /\ call # None
    /\ ~call[1].queried
    /\ written[call[1].file] # None
    /\ DOMAIN written[call[1].file][1] = {"cpu.usage.average", "mem.active.average"}
    /\ perf_dict["cpu.usage.average"] = 6
    /\ perf_dict["mem.active.average"] = 33

(* C14: a check invocation that has ended has printed exactly one line, the
   line starts with one of the severity labels OK, WARNING, CRITICAL and
   UNKNOWN, and the label is the one of the exit code; the line is about the
   first record with the requested name, no other record is evaluated. *)
C14_OneLabelledLine ==
    (prog = "check" /\ pc = "done") =>
        /\ Len(stdout) = 1
        /\ LastLine.label \in {"OK", "WARNING", "CRITICAL", "UNKNOWN"}
        /\ exitCode = Some(Ordinal(LastLine.label))
        /\ (Named # 0 /\ LastLine.kind \in {"float", "string", "info"}) =>
               moref.name = args.entity

(* C15: the line of a numeric check carries, after name=value, the four
   fields warning, critical, min and max, whether it is OK, WARNING or
   CRITICAL; the line of a status check carries no performance data. *)
C15_PerfDataFields ==
    \A i \in DOMAIN stdout :
        /\ stdout[i].kind = "float" => Len(stdout[i].perf) = 4
        /\ stdout[i].kind = "string" => stdout[i].perf = <<>>

(* C16: for a powered-on VM and counter cpu.usage the value printed is the
   sum of the samples divided by 100 and the exit code is that of the
   absolute-threshold rule; with a sum of 7500, warning 50 and critical 90
   the line starts with "WARNING - CPU Usage is 75.0%" and the exit code
   is 1. *)
C16_CpuUsageEndToEnd ==
    (/\ prog = "check" /\ pc = "done" /\ args.type = "vm" /\ args.counter = "cpu.usage"
     /\ moref.powerState = "poweredOn" /\ stdout # <<>> /\ LastLine.kind = "float") =>
        LET raw == SumSeq(lastPerf[1][1][1])
            w == RInt(args.warning[1])
            c == RInt(args.critical[1])
        IN /\ Len(stdout) = 1
           /\ REq(LastLine.value, RDiv(RInt(raw), RInt(100)))
           /\ exitCode = Some(FloatClass(LastLine.value, w, c))
           /\ LastLine.label = state_tuple[exitCode[1] + 1]
           /\ (raw = 7500 /\ args.warning = Some(50) /\ args.critical = Some(90)) =>
                  /\ FloatText(LastLine) = "WARNING - CPU Usage is 75.0%"
                  /\ exitCode = Some(STATE_WARNING)

\* the invocation of the example has ended
C16_Witness ==
    /\ prog = "check" /\ pc = "done" /\ args.type = "vm" /\ args.counter = "cpu.usage"
    /\ moref.powerState = "poweredOn"
    /\ args.warning = Some(50) /\ args.critical = Some(90)
    /\ statdata = <<7500>>
    /\ stdout # <<>> /\ LastLine.kind = "float" /\ LastLine.label = "WARNING"
    /\ exitCode = Some(STATE_WARNING)

\* the elements of a list, and a list without two equal elements
Range(list) == { list[i] : i \in DOMAIN list }
NoDup(list) == \A i, j \in DOMAIN list : list[i] = list[j] => i = j
\* the host records as get_properties returned them, and in reverse order
FetchedHosts == [i \in DOMAIN host_props |->
                    [name |-> host_props[i].name, moref |-> host_props[i].moref,
                     parent |-> host_props[i].parent]]
ReversedHosts == [i \in DOMAIN host_props |-> FetchedHosts[Len(host_props) + 1 - i]]
\* a host name up to its first "."
FirstLabel(name) ==
    IF \E i \in DOMAIN name : name[i] = "."
    THEN SubSeq(name, 1, (CHOOSE i \in DOMAIN name :
                             name[i] = "." /\ \A k \in 1..(i - 1) : name[k] # ".") - 1)
    ELSE name

(* C17: after get_hierarchy's first loop every host whose parent is a
   stand-alone compute resource has clustername False (None), every host
   whose parent is a cluster compute resource has the cluster's name as
   clustername, so clustername is set exactly for the hosts of kind Cluster;
   in both cases dcname is the name of the object two levels above the
   parent container. *)
C17_HostClassification ==
    \A i \in DOMAIN host_props :
        LET h == host_props[i]
        IN /\ h.parent.kind = "ComputeResource" =>
                 h.classified /\ h.clustername = None
           /\ h.parent.kind = "ClusterComputeResource" =>
                 h.classified /\ h.clustername = Some(h.parent.name)
           /\ h.classified =>
                 /\ (h.clustername # None) <=> (h.parent.kind = "ClusterComputeResource")
                 /\ h.dcname = h.parent.parent.parent.name
                 /\ h.dcname \in {<<"DC1">>, <<"DC2">>}

\* a stand-alone host and a clustered host have been classified
C17_Witness ==
    /\ prog = "setup" /\ fetched
    /\ \E i, j \in DOMAIN host_props :
          /\ host_props[i].parent.kind = "ComputeResource"
          /\ host_props[i].clustername = None
          /\ host_props[i].dcname = <<"DC2">>
          /\ host_props[j].parent.kind = "ClusterComputeResource"
          /\ host_props[j].clustername = Some(<<"Prod">>)
          /\ host_props[j].dcname = <<"DC1">>

(* C18: when a fetched host has a parent that is neither a compute resource
   nor a cluster compute resource, the resolver rejects it: get_hierarchy
   returns nothing and the run reports an exception, whether or not a VM
   runs on that host. *)
C18_UnknownParentRejected ==
    (/\ prog = "setup" /\ fetched
     /\ \E i \in DOMAIN host_props :
           host_props[i].parent.kind \notin {"ComputeResource", "ClusterComputeResource"}) =>
        /\ hierarchy = None
        /\ stdout # <<>>
        /\ LastLine.kind = "fault"

(* C19: the three lists get_hierarchy returns hold no tuple twice, and hold
   exactly the tuples of the classified hosts: (host, datacenter) of the
   stand-alone ones, (cluster, datacenter) and (cluster, host) of the
   clustered ones, whatever the order and the repetitions of the host
   records; resolving the same records again, also in reverse order, gives
   lists of the same lengths. *)
C19_DeduplicatedLists ==
    (prog = "setup" /\ hierarchy # None) =>
        LET h == hierarchy[1]
            hosts == { x \in Range(host_props) : x.classified }
            sa == { x \in hosts : x.parent.kind = "ComputeResource" }
            cl == { x \in hosts : x.parent.kind = "ClusterComputeResource" }
            again == get_hierarchy(vm_props, [i \in DOMAIN host_props |->
                                                 ClassifyHost(FetchedHosts[i])])
            reversed == get_hierarchy(vm_props, [i \in DOMAIN host_props |->
                                                    ClassifyHost(ReversedHosts[i])])
        IN /\ NoDup(h.dc_sahost_list) /\ NoDup(h.dc_cl_list) /\ NoDup(h.cl_host_list)
           /\ Range(h.dc_sahost_list) =
                 { [hostname |-> x.name, dcname |-> x.parent.parent.parent.name] : x \in sa }
           /\ Range(h.dc_cl_list) =
                 { [clustername |-> x.parent.name, dcname |-> x.parent.parent.parent.name] :
                      x \in cl }
           /\ Range(h.cl_host_list) =
                 { [clustername |-> x.parent.name, hostname |-> x.name] : x \in cl }
           /\ \A r \in {again, reversed} :
                 /\ r # None
                 /\ Len(r[1].dc_sahost_list) = Len(h.dc_sahost_list)
                 /\ Len(r[1].dc_cl_list) = Len(h.dc_cl_list)
                 /\ Len(r[1].cl_host_list) = Len(h.cl_host_list)

\* three host records, one of them twice, of two hosts of one cluster
C19_Witness ==
    /\ prog = "setup" /\ hierarchy # None
    /\ Len(host_props) = 3
    /\ host_props[1] = host_props[3]
    /\ Len(hierarchy[1].dc_cl_list) = 1
    /\ Len(hierarchy[1].cl_host_list) = 2

(* C20: a VM whose runtime.host is the reference of a classified host comes
   back with that host's name, clustername and dcname, and its
   hostgroup_name is lower(dcname) + "-" + lower(cluster name, or for a
   stand-alone host the host name up to its first ".") + "-vms". *)
C20_VmPlacement ==
    (prog = "setup" /\ hierarchy # None) =>
        \A j \in DOMAIN vm_props : \A i \in DOMAIN host_props :
            (host_props[i].classified /\ vm_props[j].runtime_host = host_props[i].moref) =>
                LET v == hierarchy[1].vm_props[j]
                    h == host_props[i]
                    group == IF h.parent.kind = "ClusterComputeResource"
                             THEN h.parent.name ELSE FirstLabel(h.name)
                IN /\ v.name = vm_props[j].name
                   /\ v.hostname = h.name
                   /\ v.clustername = h.clustername
                   /\ v.dcname = h.dcname
                   /\ v.hostgroup_name =
                         Join(lower(h.dcname)) \o "-" \o Join(lower(group)) \o "-vms"

\* a VM on the stand-alone host ESX01.lab.local of DC1 and a VM on a host of
\* the cluster Prod of DC1 have been placed
C20_Witness ==
    /\ prog = "setup" /\ hierarchy # None
    /\ Len(vm_props) = 2
    /\ vm_props[1].runtime_host = "host-1"
    /\ hierarchy[1].vm_props[1].hostname = <<"ESX01", ".", "lab", ".", "local">>
    /\ hierarchy[1].vm_props[1].hostgroup_name = "dc1-esx01-vms"
    /\ vm_props[2].runtime_host = "host-3"
    /\ hierarchy[1].vm_props[2].hostgroup_name = "dc1-prod-vms"

\* main of vi_setup has written the configuration of a vCenter and returned
VcEmission ==
    /\ prog = "setup" /\ pc \in {"exit", "done"} /\ hierarchy # None
    /\ stdout = <<Detected("VMware vCenter Server")>>
\* the objects of the configuration files
HostObjects == Range(config.hosts)
HostgroupObjects == Range(config.hostgroups)
ServiceObjects == Range(config.services)

(* C21: in every vCenter emission, the hostgroup name written into each VM's
   host definition (the name the resolver derived) is character for
   character the name of a hostgroup the emitter defines in the same run,
   and is one of the names in the hostgroup list the VM services are
   attached to. *)
C21_VmGroupingConsistent ==
    VcEmission =>
        \A h \in HostObjects :
            h.host_type = "vm" =>
                /\ \E g \in HostgroupObjects : g.hostgroup_name = h.hostgroups
                /\ \A sv \in ServiceObjects :
                      sv.counter_type = "vm" => h.hostgroups \in Range(sv.hostgroup_name)

(* C22: in a vCenter emission, a datacenter that contains hosts, clusters or
   datastores but no VM is in the datacenter set the resolver returns, and
   its hosts, clusters and datastores are in the configuration written. *)
C22_NoDatacenterDropped ==
    VcEmission =>
        /\ \A i \in DOMAIN host_props :
              host_props[i].classified =>
                  /\ host_props[i].dcname \in hierarchy[1].dc_list
                  /\ \E h \in HostObjects :
                        /\ h.host_type \in {"sahost", "clhost"}
                        /\ h.host_name = Join(host_props[i].name)
                  /\ host_props[i].clustername # None =>
                        \E h \in HostObjects :
                           /\ h.host_type = "cluster"
                           /\ h.host_name = Join(host_props[i].clustername[1])
        /\ \A i \in DOMAIN ds_table :
              /\ ds_table[i].dcname \in hierarchy[1].dc_list
              /\ \E h \in HostObjects :
                    /\ h.host_type = "datastore"
                    /\ h.host_name = Join(FirstLabel(ds_table[i].dsname))

(* C28: in a vCenter emission, every stand-alone host of a datacenter that is
   emitted is written as a member of the hostgroup "<datacenter>-hosts" of
   that datacenter, however many stand-alone hosts the datacenter has and in
   whichever order they are listed. *)
C28_StandAloneHostsInDatacenterGroup ==
    VcEmission =>
        \A i \in DOMAIN hierarchy[1].dc_sahost_list :
            LET sahost == hierarchy[1].dc_sahost_list[i]
            IN sahost.dcname \in hierarchy[1].dc_list =>
                  \A h \in HostObjects :
                      (h.host_type = "sahost" /\ h.host_name = Join(sahost.hostname)) =>
                          h.hostgroups = Join(lower(sahost.dcname)) \o "-hosts"

(* C29: in a vCenter emission that starts from empty configuration files,
   each hostgroup name is defined at most once in the configuration written
   and appears at most once in the hostgroup list of each service, also when
   a datacenter contains two or more clusters. *)
C29_HostgroupNamesUnique ==
    VcEmission =>
        /\ NoDup([i \in DOMAIN config.hostgroups |-> config.hostgroups[i].hostgroup_name])
        /\ \A sv \in ServiceObjects : NoDup(sv.hostgroup_name)

\* the position of the first page without a token, and the objects of the
\* pages up to the position k, in the order of the pages
FirstTokenless(ps) == CHOOSE k \in DOMAIN ps : ~ps[k].more /\ \A j \in 1..(k - 1) : ps[j].more
RECURSIVE ObjectsUpTo(_, _)
ObjectsUpTo(ps, k) == IF k = 0 THEN <<>> ELSE ObjectsUpTo(ps, k - 1) \o ps[k].objects

(* C23: get_properties follows the tokens until a response carries none: it
   makes no continuation request after the first page without a token, and
   it returns one record per object of the pages up to that one, in the
   order of the pages, each record holding exactly the properties returned
   for the object and the object's reference under 'moref'. *)
C23_FollowsTokens ==
    pages # <<>> =>
        LET k == FirstTokenless(pages)
            objs == ObjectsUpTo(pages, k)
        IN /\ continues <= k - 1
           /\ pc = "returned" =>
                 /\ continues = k - 1
                 /\ Len(gpOutput) = Len(objs)
                 /\ \A i \in DOMAIN objs :
                       /\ DOMAIN gpOutput[i] =
                             { objs[i].propSet[j].name : j \in DOMAIN objs[i].propSet }
                             \cup {"moref"}
                       /\ gpOutput[i]["moref"] = objs[i].obj
                       /\ \A j \in DOMAIN objs[i].propSet :
                             gpOutput[i][objs[i].propSet[j].name] = objs[i].propSet[j].val

\* a result of two pages, the first with a token, has been followed to its
\* end: the records of both pages are returned, that of vm-2 without the
\* property absent on it
C23_Witness ==
    /\ pc = "returned"
    /\ Len(pages) = 2 /\ pages[1].more
    /\ continues = 1
    /\ Len(pages[1].objects) = 1 /\ Len(pages[2].objects) = 2
    /\ Len(gpOutput) = 3
    /\ gpOutput[1]["moref"] = "vm-1"
    /\ gpOutput[3]["moref"] = "vm-2"
    /\ DOMAIN gpOutput[3] = {"name", "moref"}

(* C24: every metric query of a check invocation has the sampling interval
   20 and the window from T - 60 to T - 40 seconds, T being the time the
   provider answered when it was asked once after connecting, whatever its
   clock shows when the query is made; the two queries of a composite
   counter have the same window. *)
C24_QueryWindow ==
    /\ vchtime # None => vchtime[1] = ProviderEpoch
    /\ \A i \in DOMAIN queries :
          /\ vchtime # None
          /\ queries[i].intervalId = 20
          /\ queries[i].startTime = vchtime[1] - 60
          /\ queries[i].endTime = vchtime[1] - 40
          /\ \A j \in DOMAIN queries :
                /\ queries[j].startTime = queries[i].startTime
                /\ queries[j].endTime = queries[i].endTime

\* the two queries of network.usage have been made, the clock of the provider
\* having moved on between them
C24_Witness ==
    /\ prog = "check" /\ args.counter = "network.usage"
    /\ Len(queries) = 2
    /\ queries[1].metricId # queries[2].metricId
    /\ queries[1].startTime = ProviderEpoch - 60 /\ queries[2].endTime = ProviderEpoch - 40
    /\ vcclock = ProviderEpoch + 3

(* C25: for a powered-on VM and counter cpu.ready the value classified and
   printed is the sum s of the samples divided by 20000 and multiplied by
   100; a sum of 4000 is printed as 20.0. *)
C25_CpuReadyNormalization ==
    (/\ prog = "check" /\ pc = "done" /\ args.type = "vm" /\ args.counter = "cpu.ready"
     /\ moref.powerState = "poweredOn" /\ stdout # <<>> /\ LastLine.kind = "float") =>
        LET s == SumSeq(lastPerf[1][1][1])
        IN /\ LastLine.text = "CPU Ready"
           /\ REq(LastLine.value, RMul(RDiv(RInt(s), RInt(20000)), RInt(100)))
           /\ LastLine.label =
                 state_tuple[FloatClass(LastLine.value, RInt(args.warning[1]),
                                        RInt(args.critical[1])) + 1]
           /\ s = 4000 => Format1f(LastLine.value) = "20.0"

\* a cpu.ready check of a sum of 4000 has ended
C25_Witness ==
    /\ prog = "check" /\ pc = "done" /\ args.type = "vm" /\ args.counter = "cpu.ready"
    /\ moref.powerState = "poweredOn"
    /\ statdata = <<4000>>
    /\ stdout # <<>> /\ LastLine.kind = "float"
    /\ FloatText(LastLine) = "OK - CPU Ready is 20.0%"

(* C26: for a powered-on VM and counter network.usage the value classified
   and printed is (rx + tx) * 8 / 1024, rx and tx being the sums of the
   samples of net.received and of net.transmitted; rx = 1024 and tx = 1024
   are printed as 16.0. *)
C26_NetUsageComposite ==
    (/\ prog = "check" /\ pc = "done" /\ args.type = "vm" /\ args.counter = "network.usage"
     /\ moref.powerState = "poweredOn" /\ stdout # <<>> /\ LastLine.kind = "float") =>
        /\ Len(statdata) = 2 /\ Len(queries) = 2
        /\ statdata[2] = SumSeq(lastPerf[1][1][1])
        /\ LET rx == statdata[1]
               tx == statdata[2]
           IN /\ LastLine.text = "Network Usage"
              /\ REq(LastLine.value, RDiv(RMul(RInt(rx + tx), RInt(8)), RInt(1024)))
              /\ LastLine.label =
                    state_tuple[FloatClass(LastLine.value, RInt(args.warning[1]),
                                           RInt(args.critical[1])) + 1]
              /\ (rx = 1024 /\ tx = 1024) => Format1f(LastLine.value) = "16.0"

\* a network.usage check of rx = 1024 and tx = 1024 has ended
C26_Witness ==
    /\ prog = "check" /\ pc = "done" /\ args.type = "vm" /\ args.counter = "network.usage"
    /\ moref.powerState = "poweredOn"
    /\ statdata = <<1024, 1024>>
    /\ queries[1].metricId[1].counterId # queries[2].metricId[1].counterId
    /\ stdout # <<>> /\ LastLine.kind = "float"
    /\ FloatText(LastLine) = "OK - Network Usage is 16.0Mbps"

\* the map the provider's counters make, and whether a returned map (None
\* where reading raised) lacks one of its entries
ProviderMap == DictOfList(perfCounter)
LacksEntries(result) ==
    \/ result = None
    \/ \E n \in DOMAIN ProviderMap :
          n \notin DOMAIN result[1] \/ result[1][n] # ProviderMap[n]

(* C27: the cache file is rewritten in place, without lock and without
   atomic replacement: of two invocations at the same time one can read the
   file while the other has emptied it or written only part of it, and load
   a map that lacks entries of the provider's catalog. An invocation loads
   such a map only in that way: by reading while another one has the file
   open for writing. *)
C27_IncompleteMapOnlyWhileWriting ==
    \A p \in DOMAIN procs :
        (procs[p].pc = "done" /\ LacksEntries(procs[p].perf_dict)) => procs[p].racing

\* invocation 2 has read the file while invocation 1, which made it empty,
\* has not yet closed it, and has loaded a map without an entry of the
\* provider's catalog
C27_Witness ==
    /\ procs # <<>>
    /\ procs[1].pc = "write" /\ procs[1].wrote < Len(perfCounter)
    /\ procs[2].pc = "done" /\ procs[2].racing
    /\ procs[2].perf_dict # None
    /\ LacksEntries(procs[2].perf_dict)
    /\ "cpu.ready.summation" \in DOMAIN ProviderMap
    /\ "cpu.ready.summation" \notin DOMAIN procs[2].perf_dict[1]

====
